---- MODULE Spec2Model ----
(***************************************************************************)
(* A model of the three-troika-ui widgets.  The first part models UIPanel  *)
(* (src/src/UIPanel.ts): its child list, its layout parameters, its size,  *)
(* its optional background box and the positions its layout pass writes    *)
(* into the children.                                                      *)
(*                                                                         *)
(* Lengths are JavaScript numbers in the source.  The model keeps them as  *)
(* exact rationals: every length is an integer count of 1/Unit, and Unit   *)
(* is chosen so that every division the layout performs (by 2, by count-1  *)
(* and by count+1) is exact.  Depths (position.z) are counted in 1/1000.   *)
(*                                                                         *)
(* The second part models the state machines of UIButton, UICheckbox,      *)
(* UIProgressBar and UIScrollView.  Each widget is one record; a method is *)
(* an operator from the record before the call to the record after it.     *)
(***************************************************************************)
EXTENDS Integers, Sequences, FiniteSets, TLC

\* ------------------------------------------------------------------ bounds

\* The longest child list the model explores.
MaxChildren == 3

\* The number of distinct UIElement instances that can be handed to a panel.
NumElems == 3

\* The number of method calls after construction that Spec explores.
MaxOps == 4

\* The number of onClick invocations a button is followed for.
MaxClicks == 2

\* The number of onChange invocations a checkbox is followed for.
MaxChanges == 3

\* The number of scroll views constructed one after another.
MaxViews == 3

\* The number of changes of value a toggle is followed for.
MaxToggles == 2

\* The number of times a floating text is reset for another run.
MaxResets == 2

\* The number of texture loads one image starts.
MaxLoads == 3

RECURSIVE Gcd(_, _)
Gcd(a, b) == IF b = 0 THEN a ELSE Gcd(b, a % b)

RECURSIVE LcmUpTo(_)
LcmUpTo(n) == IF n <= 1 THEN 1 ELSE LET l == LcmUpTo(n - 1) IN (l * n) \div Gcd(l, n)

\* One length unit of the source is Unit model units: divisible by 2, by
\* every count - 1 and by every count + 1 the layout can divide by, and by
\* 100 for the hundredths the widgets measure in.
Unit == 200 * LcmUpTo(MaxChildren + 1)

Elems == 1..NumElems

\* The sizes of the elements handed to the panel (UIElement.width/height);
\* they do not change while the element is in the model.
ElemWidth(e) == (1 + (e % 2)) * Unit
ElemHeight(e) == (1 + ((e + 1) % 3)) * Unit

\* Inputs of the setters and of the constructor.
Directions == {"horizontal", "vertical"}
Aligns == {"start", "center", "end"}
Justifies == {"start", "center", "end", "space-between", "space-around"}
Gaps == {0, Unit}
\* padding is [top, right, bottom, left]; a number p stands for [p, p, p, p].
Paddings == {<<0, 0, 0, 0>>, <<Unit, 0, 2 * Unit, 3 * Unit>>}
\* <<width, height>> pairs given to the constructor and to setSize.
Sizes == {<<10 * Unit, 8 * Unit>>, <<2 * Unit, 3 * Unit>>}

\* position.z written by layout (0.01), of the border mesh (0.001) and of
\* the background mesh (0), in thousandths.
ChildDepth == 10
BorderDepth == 1
BackgroundDepth == 0

\* ------------------------------------------------------------------- state

VARIABLES
  children,    \* UIPanel._children: sequence of elements
  direction,   \* UIPanel._direction
  align,       \* UIPanel._align
  justify,     \* UIPanel._justify
  gap,         \* UIPanel._gap
  padding,     \* UIPanel._padding: <<top, right, bottom, left>>
  autoSize,    \* UIPanel._autoSize
  width,       \* UIElement._width of the panel
  height,      \* UIElement._height of the panel
  background,  \* TRUE iff UIPanel.background is not null
  bgWidth,     \* background._width
  bgHeight,    \* background._height
  position,    \* position[e] = [x, y, z]: Object3D.position of element e
  lastOp,      \* the public method that ran last ("new" after construction)
  nOps,        \* the number of method calls since construction (Spec only)
  lastArg      \* the argument of the method that ran last (the element of
               \* addChild and removeChild, the argument of a widget
               \* method), 0 when the model does not record it

VARIABLES
  attached        \* the elements whose Object3D.parent is the panel

VARIABLES
  button,         \* a UIButton
  checkbox,       \* a UICheckbox
  progressBar,    \* a UIProgressBar
  scrollViews,    \* the UIScrollView instances, in order of construction
  stencilCounter  \* UIScrollView.stencilCounter (static)

VARIABLES
  slider,         \* a UISlider
  toggle,         \* a UIToggle
  floatingText,   \* a UIFloatingText
  image,          \* a UIImage and the texture loads it started
  tooltip,        \* a UITooltip
  box             \* a UIBox

vars == <<children, direction, align, justify, gap, padding, autoSize,
          width, height, background, bgWidth, bgHeight, position, lastOp, nOps, lastArg,
          attached,
          button, checkbox, progressBar, scrollViews, stencilCounter,
          slider, toggle, floatingText, image, tooltip, box>>

moreWidgetVars == <<slider, toggle, floatingText, image, tooltip, box>>

widgetVars == <<button, checkbox, progressBar, scrollViews, stencilCounter,
                moreWidgetVars>>

\* The panel as one record, the argument of the layout operators.
Panel ==
  [children |-> children, direction |-> direction, align |-> align,
   justify |-> justify, gap |-> gap, padding |-> padding,
   autoSize |-> autoSize, width |-> width, height |-> height,
   background |-> background, bgWidth |-> bgWidth, bgHeight |-> bgHeight,
   position |-> position]

paddingTop(s) == s.padding[1]
paddingRight(s) == s.padding[2]
paddingBottom(s) == s.padding[3]
paddingLeft(s) == s.padding[4]

Max(a, b) == IF a >= b THEN a ELSE b

\* ------------------------------------------------------------------ layout

contentWidth(s) == s.width - paddingLeft(s) - paddingRight(s)
contentHeight(s) == s.height - paddingTop(s) - paddingBottom(s)

childMainSize(s, e) == IF s.direction = "horizontal" THEN ElemWidth(e) ELSE ElemHeight(e)
childCrossSize(s, e) == IF s.direction = "horizontal" THEN ElemHeight(e) ELSE ElemWidth(e)

RECURSIVE sumMainSize(_, _)
sumMainSize(s, i) ==
  IF i = 0 THEN 0 ELSE sumMainSize(s, i - 1) + childMainSize(s, s.children[i])

\* Mutant of totalMainSize: one gap per child instead of one between each
\* two children.
totalMainSizeGapPerChild(s) ==
  sumMainSize(s, Len(s.children)) + s.gap * Len(s.children)

totalMainSize(s) ==
  sumMainSize(s, Len(s.children)) + s.gap * (Len(s.children) - 1)

RECURSIVE maxCrossSizeUpTo(_, _)
maxCrossSizeUpTo(s, i) ==
  IF i = 0 THEN 0
  ELSE Max(maxCrossSizeUpTo(s, i - 1), childCrossSize(s, s.children[i]))

maxCrossSize(s) == maxCrossSizeUpTo(s, Len(s.children))

\* Mutant of applyAutoSize: the background is not resized.
applyAutoSizeStaleBackground(s) ==
  IF ~s.autoSize THEN s
  ELSE [s EXCEPT
          !.width = IF s.direction = "horizontal"
                    THEN totalMainSize(s) + paddingLeft(s) + paddingRight(s)
                    ELSE maxCrossSize(s) + paddingLeft(s) + paddingRight(s),
          !.height = IF s.direction = "horizontal"
                     THEN maxCrossSize(s) + paddingTop(s) + paddingBottom(s)
                     ELSE totalMainSize(s) + paddingTop(s) + paddingBottom(s)]

\* The autoSize step: the panel's size from its children, and the
\* background resized to it.
applyAutoSize(s) ==
  IF ~s.autoSize THEN s
  ELSE LET w == IF s.direction = "horizontal"
                THEN totalMainSize(s) + paddingLeft(s) + paddingRight(s)
                ELSE maxCrossSize(s) + paddingLeft(s) + paddingRight(s)
           h == IF s.direction = "horizontal"
                THEN maxCrossSize(s) + paddingTop(s) + paddingBottom(s)
                ELSE totalMainSize(s) + paddingTop(s) + paddingBottom(s)
       IN [s EXCEPT !.width = w, !.height = h,
                    !.bgWidth = IF s.background THEN w ELSE @,
                    !.bgHeight = IF s.background THEN h ELSE @]

\* mainSize is taken from contentWidth / contentHeight, which the code
\* computes at the top of layout, before the autoSize step: s is the panel
\* as it was when layout was entered.
mainSize(s) == IF s.direction = "horizontal" THEN contentWidth(s) ELSE contentHeight(s)

\* Mutant of mainStart: paddingLeft is taken for both directions.
mainStartPaddingLeftForBoth(t) ==
  IF t.direction = "horizontal"
  THEN (0 - t.width) \div 2 + paddingLeft(t)
  ELSE t.height \div 2 - paddingLeft(t)

\* mainStart reads this._width / this._height after the autoSize step.
mainStart(t) ==
  IF t.direction = "horizontal"
  THEN (0 - t.width) \div 2 + paddingLeft(t)
  ELSE t.height \div 2 - paddingTop(t)

\* Mutant of spacing: space-between keeps the configured gap.
spacingKeepsGap(t, ms) ==
  LET n == Len(t.children)
      free == ms - (totalMainSize(t) - t.gap * (n - 1))
  IN IF t.justify = "space-around" THEN free \div (n + 1) ELSE t.gap

\* The spacing between consecutive children; ms is mainSize.
spacing(t, ms) ==
  LET n == Len(t.children)
      free == ms - (totalMainSize(t) - t.gap * (n - 1))
  IN CASE t.justify = "space-between" ->
            IF n > 1 THEN free \div (n - 1) ELSE t.gap
       [] t.justify = "space-around" -> free \div (n + 1)
       [] OTHER -> t.gap

\* Mutant of startMainPos: center shifts by the whole free space, like end.
startMainPosCenterAsEnd(t, ms) ==
  CASE t.justify = "start" -> mainStart(t)
    [] t.justify = "center" -> mainStart(t) + ms - totalMainSize(t)
    [] t.justify = "end" -> mainStart(t) + ms - totalMainSize(t)
    [] t.justify = "space-between" -> mainStart(t)
    [] t.justify = "space-around" -> mainStart(t) + spacing(t, ms)

\* The main-axis position the first child is placed from; ms is mainSize.
startMainPos(t, ms) ==
  CASE t.justify = "start" -> mainStart(t)
    [] t.justify = "center" -> mainStart(t) + (ms - totalMainSize(t)) \div 2
    [] t.justify = "end" -> mainStart(t) + ms - totalMainSize(t)
    [] t.justify = "space-between" -> mainStart(t)
    [] t.justify = "space-around" -> mainStart(t) + spacing(t, ms)

\* Mutant of crossPos: center places the child's near edge, not its
\* centre, on the panel's centre line.
crossPosCenterByEdge(t, e) ==
  CASE t.align = "start" ->
         IF t.direction = "horizontal"
         THEN (0 - t.height) \div 2 + paddingBottom(t) + childCrossSize(t, e) \div 2
         ELSE (0 - t.width) \div 2 + paddingLeft(t) + childCrossSize(t, e) \div 2
    [] t.align = "center" -> childCrossSize(t, e) \div 2
    [] t.align = "end" ->
         IF t.direction = "horizontal"
         THEN t.height \div 2 - paddingTop(t) - childCrossSize(t, e) \div 2
         ELSE t.width \div 2 - paddingRight(t) - childCrossSize(t, e) \div 2

\* Mutant of crossPos: start and end take the padding of the opposite side.
crossPosOppositePadding(t, e) ==
  CASE t.align = "start" ->
         IF t.direction = "horizontal"
         THEN (0 - t.height) \div 2 + paddingTop(t) + childCrossSize(t, e) \div 2
         ELSE (0 - t.width) \div 2 + paddingRight(t) + childCrossSize(t, e) \div 2
    [] t.align = "center" -> 0
    [] t.align = "end" ->
         IF t.direction = "horizontal"
         THEN t.height \div 2 - paddingBottom(t) - childCrossSize(t, e) \div 2
         ELSE t.width \div 2 - paddingLeft(t) - childCrossSize(t, e) \div 2

crossPos(t, e) ==
  CASE t.align = "start" ->
         IF t.direction = "horizontal"
         THEN (0 - t.height) \div 2 + paddingBottom(t) + childCrossSize(t, e) \div 2
         ELSE (0 - t.width) \div 2 + paddingLeft(t) + childCrossSize(t, e) \div 2
    [] t.align = "center" -> 0
    [] t.align = "end" ->
         IF t.direction = "horizontal"
         THEN t.height \div 2 - paddingTop(t) - childCrossSize(t, e) \div 2
         ELSE t.width \div 2 - paddingRight(t) - childCrossSize(t, e) \div 2

\* Mutant of childPosition: the depth is that of the background.
childPositionAtBackgroundDepth(t, e, mainPos) ==
  IF t.direction = "horizontal"
  THEN [x |-> mainPos + childMainSize(t, e) \div 2, y |-> crossPos(t, e), z |-> BackgroundDepth]
  ELSE [x |-> crossPos(t, e), y |-> mainPos - childMainSize(t, e) \div 2, z |-> BackgroundDepth]

\* The position one child gets when the running main position is mainPos.
childPosition(t, e, mainPos) ==
  IF t.direction = "horizontal"
  THEN [x |-> mainPos + childMainSize(t, e) \div 2, y |-> crossPos(t, e), z |-> ChildDepth]
  ELSE [x |-> crossPos(t, e), y |-> mainPos - childMainSize(t, e) \div 2, z |-> ChildDepth]

\* The running main position after child e was placed.
nextMainPos(t, e, mainPos, sp) ==
  IF t.direction = "horizontal"
  THEN mainPos + childMainSize(t, e) + sp
  ELSE mainPos - (childMainSize(t, e) + sp)

\* The placement loop from child i on: pos is the position map so far.
RECURSIVE placeChildren(_, _, _, _, _)
placeChildren(t, i, mainPos, sp, pos) ==
  IF i > Len(t.children) THEN pos
  ELSE LET e == t.children[i]
       IN placeChildren(t, i + 1, nextMainPos(t, e, mainPos, sp), sp,
                        [pos EXCEPT ![e] = childPosition(t, e, mainPos)])

\* Mutant of layout: no early return for an empty child list.
layoutWithoutEmptyReturn(s) ==
  LET ms == mainSize(s)
      t == applyAutoSize(s)
  IN [t EXCEPT !.position =
        placeChildren(t, 1, startMainPos(t, ms), spacing(t, ms), t.position)]

\* UIPanel.layout().
layout(s) ==
  IF Len(s.children) = 0 THEN s
  ELSE LET ms == mainSize(s)
           t == applyAutoSize(s)
       IN [t EXCEPT !.position =
             placeChildren(t, 1, startMainPos(t, ms), spacing(t, ms), t.position)]

\* ----------------------------------------------------------------- actions

\* The panel after a method called with element e: the record r written
\* back to the variables.
CommitArg(r, op, e) ==
  /\ children' = r.children
  /\ direction' = r.direction
  /\ align' = r.align
  /\ justify' = r.justify
  /\ gap' = r.gap
  /\ padding' = r.padding
  /\ autoSize' = r.autoSize
  /\ width' = r.width
  /\ height' = r.height
  /\ background' = r.background
  /\ bgWidth' = r.bgWidth
  /\ bgHeight' = r.bgHeight
  /\ position' = r.position
  /\ lastOp' = op
  /\ lastArg' = e

\* The panel after a method that attaches and detaches no element.
Commit(r, op) == CommitArg(r, op, 0) /\ UNCHANGED attached

\* new UIPanel(config) with every field of config given: the fields are
\* copied, and the background box, when config asks for one, is built with
\* the panel's size.  Every element starts at the origin.
Constructed(config) ==
  /\ children = <<>>
  /\ direction = config.direction
  /\ align = config.align
  /\ justify = config.justify
  /\ gap = config.gap
  /\ padding = config.padding
  /\ autoSize = config.autoSize
  /\ width = config.width
  /\ height = config.height
  /\ background = config.background
  /\ bgWidth = IF config.background THEN config.width ELSE 0
  /\ bgHeight = IF config.background THEN config.height ELSE 0
  /\ position = [e \in Elems |-> [x |-> 0, y |-> 0, z |-> 0]]
  /\ lastOp = "new"
  /\ nOps = 0
  /\ lastArg = 0
  /\ attached = {}

\* The configurations with the documented defaults for direction, align,
\* justify, gap and padding.
DefaultConfigs ==
  {[direction |-> "vertical", align |-> "center", justify |-> "start",
    gap |-> 0, padding |-> <<0, 0, 0, 0>>, autoSize |-> a, background |-> b,
    width |-> sz[1], height |-> sz[2]] :
     a \in BOOLEAN, b \in BOOLEAN, sz \in Sizes}

\* Every configuration over the input sets.
AllConfigs ==
  {[direction |-> d, align |-> al, justify |-> j, gap |-> g, padding |-> p,
    autoSize |-> a, background |-> b, width |-> sz[1], height |-> sz[2]] :
     d \in Directions, al \in Aligns, j \in Justifies, g \in Gaps,
     p \in Paddings, a \in BOOLEAN, b \in BOOLEAN, sz \in Sizes}

\* ================================================================= widgets

\* A widget method ran: the panel is left alone.
Ran(op, arg) ==
  /\ lastOp' = op
  /\ lastArg' = arg
  /\ UNCHANGED <<children, direction, align, justify, gap, padding, autoSize,
                 width, height, background, bgWidth, bgHeight, position, nOps,
                 attached>>

\* ---------------------------------------------------------------- UIButton
\* The colour defaults of the UIButton constructor (0xffffff, 0x3498db,
\* 0x2980b9, 0x1a5276, 0x7f8c8d, 0xbdc3c7).
DefaultTextColor == 16777215
DefaultColor == 3447003
DefaultHoverColor == 2719929
DefaultPressColor == 1725046
DefaultDisabledColor == 8359053
DefaultDisabledTextColor == 12436423

DefaultButtonConfig ==
  [textColor |-> DefaultTextColor, color |-> DefaultColor,
   hoverColor |-> DefaultHoverColor, pressColor |-> DefaultPressColor,
   disabledColor |-> DefaultDisabledColor,
   disabledTextColor |-> DefaultDisabledTextColor, hasOnClick |-> FALSE]

\* Configurations given to the constructor: with or without an onClick
\* callback, the text colour left at its default or set to a grey.
ButtonConfigs ==
  {[DefaultButtonConfig EXCEPT !.textColor = tc, !.hasOnClick = oc] :
     tc \in {DefaultTextColor, DefaultDisabledTextColor}, oc \in BOOLEAN}

\* Colours given to setColor, setHoverColor and setPressColor.
ButtonColors == {DefaultColor, DefaultPressColor}

\* new UIButton(config): backgroundColor is the colour of the background
\* box, labelColor that of the label, onClickCalls the number of times the
\* onClick callback was invoked.
UIButton(config) ==
  [isHovered |-> FALSE, isPressed |-> FALSE, isDisabled |-> FALSE,
   textColor |-> config.textColor, color |-> config.color,
   hoverColor |-> config.hoverColor, pressColor |-> config.pressColor,
   disabledColor |-> config.disabledColor,
   disabledTextColor |-> config.disabledTextColor,
   hasOnClick |-> config.hasOnClick, onClickCalls |-> 0,
   backgroundColor |-> config.color, labelColor |-> config.textColor]

\* Mutant of UIButton_updateAppearance: hovered is looked at before pressed.
UIButton_updateAppearanceHoverFirst(b) ==
  IF b.isDisabled
  THEN [b EXCEPT !.backgroundColor = b.disabledColor, !.labelColor = b.disabledTextColor]
  ELSE IF b.isHovered
  THEN [b EXCEPT !.backgroundColor = b.hoverColor, !.labelColor = b.textColor]
  ELSE IF b.isPressed
  THEN [b EXCEPT !.backgroundColor = b.pressColor, !.labelColor = b.textColor]
  ELSE [b EXCEPT !.backgroundColor = b.color, !.labelColor = b.textColor]

UIButton_updateAppearance(b) ==
  IF b.isDisabled
  THEN [b EXCEPT !.backgroundColor = b.disabledColor, !.labelColor = b.disabledTextColor]
  ELSE IF b.isPressed
  THEN [b EXCEPT !.backgroundColor = b.pressColor, !.labelColor = b.textColor]
  ELSE IF b.isHovered
  THEN [b EXCEPT !.backgroundColor = b.hoverColor, !.labelColor = b.textColor]
  ELSE [b EXCEPT !.backgroundColor = b.color, !.labelColor = b.textColor]

UIButton_setHovered(b, hovered) ==
  IF b.isDisabled \/ b.isHovered = hovered THEN b
  ELSE UIButton_updateAppearance([b EXCEPT !.isHovered = hovered])

UIButton_setPressed(b, pressed) ==
  IF b.isDisabled \/ b.isPressed = pressed THEN b
  ELSE UIButton_updateAppearance([b EXCEPT !.isPressed = pressed])

UIButton_setDisabled(b, disabled) ==
  IF b.isDisabled = disabled THEN b
  ELSE UIButton_updateAppearance([b EXCEPT !.isDisabled = disabled,
                                           !.isHovered = FALSE,
                                           !.isPressed = FALSE])

\* Mutant of UIButton_click: the callback runs whether disabled or not.
UIButton_clickWhenDisabled(b) ==
  IF b.hasOnClick THEN [b EXCEPT !.onClickCalls = @ + 1] ELSE b

UIButton_click(b) ==
  IF b.isDisabled THEN b
  ELSE IF b.hasOnClick THEN [b EXCEPT !.onClickCalls = @ + 1]
  ELSE b

UIButton_setColor(b, color) == UIButton_updateAppearance([b EXCEPT !.color = color])
UIButton_setHoverColor(b, color) == UIButton_updateAppearance([b EXCEPT !.hoverColor = color])
UIButton_setPressColor(b, color) == UIButton_updateAppearance([b EXCEPT !.pressColor = color])

ButtonStep(b, op, arg) ==
  /\ button' = b
  /\ Ran(op, arg)
  /\ UNCHANGED <<checkbox, progressBar, scrollViews, stencilCounter, moreWidgetVars>>

ButtonSetHovered(h) == ButtonStep(UIButton_setHovered(button, h), "setHovered", h)
ButtonSetPressed(p) == ButtonStep(UIButton_setPressed(button, p), "setPressed", p)
ButtonSetDisabled(d) == ButtonStep(UIButton_setDisabled(button, d), "setDisabled", d)
ButtonClick ==
  /\ button.onClickCalls < MaxClicks
  /\ ButtonStep(UIButton_click(button), "click", 0)
ButtonSetColor(c) == ButtonStep(UIButton_setColor(button, c), "setColor", c)
ButtonSetHoverColor(c) == ButtonStep(UIButton_setHoverColor(button, c), "setHoverColor", c)
ButtonSetPressColor(c) == ButtonStep(UIButton_setPressColor(button, c), "setPressColor", c)

\* -------------------------------------------------------------- UICheckbox
DefaultCheckboxConfig == [checked |-> FALSE, label |-> "", hasOnChange |-> FALSE]

CheckboxConfigs ==
  {[checked |-> c, label |-> l, hasOnChange |-> oc] :
     c \in BOOLEAN, l \in {"", "On"}, oc \in BOOLEAN}

\* Texts given to setLabel.
CheckboxLabels == {"", "Off"}

\* new UICheckbox(config): checkMarkVisible is checkMark.visible, hasLabelText
\* says that the label text object exists, labelText is the text it shows,
\* onChangeCalls lists the arguments the onChange callback was invoked with.
UICheckbox(config) ==
  [checked |-> config.checked, checkMarkVisible |-> config.checked,
   isHovered |-> FALSE, label |-> config.label,
   hasLabelText |-> config.label # "", labelText |-> config.label,
   hasOnChange |-> config.hasOnChange, onChangeCalls |-> <<>>]

\* Mutant of UICheckbox_setChecked: no early return for the current state.
UICheckbox_setCheckedAlwaysFires(c, checked) ==
  [c EXCEPT !.checked = checked, !.checkMarkVisible = checked,
            !.onChangeCalls = IF c.hasOnChange THEN Append(@, checked) ELSE @]

UICheckbox_setChecked(c, checked) ==
  IF c.checked = checked THEN c
  ELSE [c EXCEPT !.checked = checked, !.checkMarkVisible = checked,
                 !.onChangeCalls = IF c.hasOnChange THEN Append(@, checked) ELSE @]

UICheckbox_toggle(c) == UICheckbox_setChecked(c, ~c.checked)

UICheckbox_setHovered(c, hovered) ==
  IF c.isHovered = hovered THEN c ELSE [c EXCEPT !.isHovered = hovered]

UICheckbox_setLabel(c, text) ==
  [c EXCEPT !.label = text, !.labelText = IF c.hasLabelText THEN text ELSE @]

CheckboxStep(c, op, arg) ==
  /\ checkbox' = c
  /\ Ran(op, arg)
  /\ UNCHANGED <<button, progressBar, scrollViews, stencilCounter, moreWidgetVars>>

CheckboxToggle ==
  /\ Len(checkbox.onChangeCalls) < MaxChanges
  /\ CheckboxStep(UICheckbox_toggle(checkbox), "toggle", 0)
CheckboxSetChecked(c) ==
  /\ Len(checkbox.onChangeCalls) < MaxChanges
  /\ CheckboxStep(UICheckbox_setChecked(checkbox, c), "setChecked", c)
CheckboxSetHovered(h) == CheckboxStep(UICheckbox_setHovered(checkbox, h), "setHovered", h)
CheckboxSetLabel(l) == CheckboxStep(UICheckbox_setLabel(checkbox, l), "setLabel", l)

\* ----------------------------------------------------------- UIProgressBar
\* The progress bar's value, width, height and fill are counted in
\* thousandths: 0.001, the least fill size, is 1.
Thousand == 1000
MinFillSize == 1

\* The fillColor default of the UIProgressBar constructor (0x00ff00).
DefaultFillColor == 65280

\* Colours given to setFillColor.
FillColors == {DefaultFillColor, DefaultTextColor}

\* Values given to the constructor and to setValue: -0.5, 0, 0.5, 1 and 2.
ProgressValues ==
  {0 - Thousand \div 2, 0, Thousand \div 2, Thousand, 2 * Thousand}

\* <<width, height>> pairs given to setSize.
ProgressSizes ==
  {<<Thousand, Thousand \div 10>>, <<2 * Thousand, Thousand \div 5>>,
   <<Thousand \div 10, Thousand>>}

DefaultProgressBarConfig ==
  [hasValue |-> FALSE, value |-> 0, direction |-> "horizontal", borderWidth |-> 0]

ProgressBarConfigs ==
  {DefaultProgressBarConfig}
    \cup {[hasValue |-> TRUE, value |-> v, direction |-> d, borderWidth |-> 0] :
            v \in ProgressValues, d \in Directions}

\* length * value, for a value in thousandths.
Times(length, value) == (length * value) \div Thousand

UIProgressBar_updateFillSize(p) ==
  IF p.direction = "horizontal"
  THEN [p EXCEPT !.fillWidth = Max(MinFillSize, Times(p.width, p.value)),
                 !.fillHeight = p.height]
  ELSE [p EXCEPT !.fillWidth = p.width,
                 !.fillHeight = Max(MinFillSize, Times(p.height, p.value))]

UIProgressBar_updateFillPosition(p) ==
  IF p.direction = "horizontal"
  THEN [p EXCEPT !.fillX = ((0 - p.width) + Times(p.width, p.value)) \div 2]
  ELSE [p EXCEPT !.fillY = ((0 - p.height) + Times(p.height, p.value)) \div 2]

\* new UIProgressBar(config): the width and height defaults are 1 and 0.1,
\* the value default is 1, and a given value is stored as it is.
UIProgressBar(config) ==
  LET w == Thousand
      h == Thousand \div 10
      v == IF config.hasValue THEN config.value ELSE Thousand
      fillWidth == IF config.direction = "horizontal" THEN Times(w, v) ELSE w
      fillHeight == IF config.direction = "vertical" THEN Times(h, v) ELSE h
  IN UIProgressBar_updateFillPosition(
       [width |-> w, height |-> h, value |-> v, direction |-> config.direction,
        fillWidth |-> Max(MinFillSize, fillWidth - config.borderWidth * 2),
        fillHeight |-> Max(MinFillSize, fillHeight - config.borderWidth * 2),
        fillX |-> 0, fillY |-> 0, fillColor |-> DefaultFillColor])

UIProgressBar_setValue(p, value) ==
  UIProgressBar_updateFillPosition(
    UIProgressBar_updateFillSize(
      [p EXCEPT !.value = Max(0, IF value < Thousand THEN value ELSE Thousand)]))

UIProgressBar_getValue(p) == p.value

UIProgressBar_setFillColor(p, color) == [p EXCEPT !.fillColor = color]

UIProgressBar_setSize(p, w, h) ==
  UIProgressBar_updateFillPosition(
    UIProgressBar_updateFillSize([p EXCEPT !.width = w, !.height = h]))

ProgressBarStep(p, op, arg) ==
  /\ progressBar' = p
  /\ Ran(op, arg)
  /\ UNCHANGED <<button, checkbox, scrollViews, stencilCounter, moreWidgetVars>>

ProgressBarSetValue(v) ==
  ProgressBarStep(UIProgressBar_setValue(progressBar, v), "setValue", v)
ProgressBarSetFillColor(c) ==
  ProgressBarStep(UIProgressBar_setFillColor(progressBar, c), "setFillColor", c)
ProgressBarSetSize(w, h) ==
  ProgressBarStep(UIProgressBar_setSize(progressBar, w, h), "setSize", <<w, h>>)

\* ------------------------------------------------------------ UIScrollView
\* Lengths of a scroll view are counted in 1/Unit, like the panel's.
\* A configuration: the viewport height is the default 3, the content
\* height the default 3 or more, the stencilRef given or not.
ScrollViewConfig(hasRef, ref, ch) ==
  [hasStencilRef |-> hasRef, stencilRef |-> ref, height |-> 3 * Unit,
   contentHeight |-> ch]

\* One view, with no stencilRef given, to be scrolled.
ScrollConfigs ==
  {ScrollViewConfig(FALSE, 0, ch) : ch \in {3 * Unit, 10 * Unit}}

\* Views constructed one after another, with a stencilRef 1, 2, ... given or
\* not.
StencilConfigs ==
  {ScrollViewConfig(FALSE, 0, 3 * Unit)}
    \cup {ScrollViewConfig(TRUE, r, 3 * Unit) : r \in 1..(MaxViews + 1)}

\* Arguments of scroll (a distance), of setScrollPosition (a ratio, in
\* 1/Unit) and of setContentHeight.
ScrollDeltas == {Unit \div 2, 0 - Unit \div 2}
ScrollRatios == {0, Unit \div 2, Unit}
ContentHeights == {3 * Unit, 10 * Unit}

\* Pointer heights given to startDrag and updateDrag: 0, 0.28 and -0.28.
DragYs == {0, (28 * Unit) \div 100, 0 - (28 * Unit) \div 100}

Min(a, b) == IF a < b THEN a ELSE b

\* new UIScrollView(config), when the class counter is counter.
UIScrollView(config, counter) ==
  [stencilRef |-> IF config.hasStencilRef THEN config.stencilRef ELSE counter,
   explicitRef |-> config.hasStencilRef,
   viewportHeight |-> config.height, contentHeight |-> config.contentHeight,
   scrollOffset |-> 0, isThumbHovered |-> FALSE,
   height |-> config.height, isDragging |-> FALSE, dragStartY |-> 0,
   dragStartScrollOffset |-> 0]

\* UIScrollView.stencilCounter after new UIScrollView(config):
\* config.stencilRef ?? UIScrollView.stencilCounter++.
stencilCounterAfter(config, counter) ==
  IF config.hasStencilRef THEN counter ELSE counter + 1

maxScroll(v) == Max(0, v.contentHeight - v.viewportHeight)

UIScrollView_setContentHeight(v, h) ==
  [v EXCEPT !.contentHeight = h,
            !.scrollOffset = Min(v.scrollOffset, Max(0, h - v.viewportHeight))]

UIScrollView_scroll(v, delta) ==
  [v EXCEPT !.scrollOffset = Max(0, Min(maxScroll(v), v.scrollOffset + delta))]

UIScrollView_setScrollPosition(v, ratio) ==
  [v EXCEPT !.scrollOffset = (maxScroll(v) * Max(0, Min(Unit, ratio))) \div Unit]

UIScrollView_startDrag(v, localY) ==
  [v EXCEPT !.isDragging = TRUE, !.dragStartY = localY,
            !.dragStartScrollOffset = v.scrollOffset]

\* The body of updateDrag after its isDragging test, for a positive
\* content height: 0.2 is Unit / 5 and 0.3 is 3 Unit / 10.
dragTo(v, localY) ==
  LET deltaY == v.dragStartY - localY
      scrollbarHeight == v.height - Unit \div 5
      thumbHeight ==
        Max((3 * Unit) \div 10,
            IF v.viewportHeight < v.contentHeight
            THEN (scrollbarHeight * v.viewportHeight) \div v.contentHeight
            ELSE scrollbarHeight)
      thumbRange == scrollbarHeight - thumbHeight
      ms == v.contentHeight - v.viewportHeight
  IN IF thumbRange > 0
     THEN [v EXCEPT !.scrollOffset =
             Max(0, Min(ms, v.dragStartScrollOffset + (deltaY * ms) \div thumbRange))]
     ELSE v

\* Mutant of UIScrollView_updateDrag: no test of isDragging.
UIScrollView_updateDragAlways(v, localY) == dragTo(v, localY)

UIScrollView_updateDrag(v, localY) ==
  IF ~v.isDragging THEN v ELSE dragTo(v, localY)

UIScrollView_endDrag(v) == [v EXCEPT !.isDragging = FALSE]

UIScrollView_setThumbHovered(v, hovered) ==
  IF v.isThumbHovered = hovered THEN v ELSE [v EXCEPT !.isThumbHovered = hovered]

\* UIScrollView.scrollRatio, as the fraction <<numerator, denominator>> in
\* lowest terms.
scrollRatio(v) ==
  IF maxScroll(v) > 0
  THEN LET g == Gcd(maxScroll(v), v.scrollOffset)
       IN <<v.scrollOffset \div g, maxScroll(v) \div g>>
  ELSE <<0, 1>>

ScrollViewStep(views, counter, op, arg) ==
  /\ scrollViews' = views
  /\ stencilCounter' = counter
  /\ Ran(op, arg)
  /\ UNCHANGED <<button, checkbox, progressBar, moreWidgetVars>>

NewScrollView(config) ==
  /\ Len(scrollViews) < MaxViews
  /\ ScrollViewStep(Append(scrollViews, UIScrollView(config, stencilCounter)),
                    stencilCounterAfter(config, stencilCounter), "new", 0)

Scroll(i, delta) ==
  ScrollViewStep([scrollViews EXCEPT ![i] = UIScrollView_scroll(@, delta)],
                 stencilCounter, "scroll", delta)
SetScrollPosition(i, ratio) ==
  ScrollViewStep([scrollViews EXCEPT ![i] = UIScrollView_setScrollPosition(@, ratio)],
                 stencilCounter, "setScrollPosition", ratio)
SetContentHeight(i, h) ==
  ScrollViewStep([scrollViews EXCEPT ![i] = UIScrollView_setContentHeight(@, h)],
                 stencilCounter, "setContentHeight", h)
StartDrag(i, localY) ==
  ScrollViewStep([scrollViews EXCEPT ![i] = UIScrollView_startDrag(@, localY)],
                 stencilCounter, "startDrag", localY)
UpdateDrag(i, localY) ==
  ScrollViewStep([scrollViews EXCEPT ![i] = UIScrollView_updateDrag(@, localY)],
                 stencilCounter, "updateDrag", localY)
EndDrag(i) ==
  ScrollViewStep([scrollViews EXCEPT ![i] = UIScrollView_endDrag(@)],
                 stencilCounter, "endDrag", 0)
SetThumbHovered(i, hovered) ==
  ScrollViewStep([scrollViews EXCEPT ![i] = UIScrollView_setThumbHovered(@, hovered)],
                 stencilCounter, "setThumbHovered", hovered)

\* ---------------------------------------------------------------- UISlider
\* The slider's min, max, step and value are counted in twelfths, its
\* width and the pointer's x in 1/Unit.
SliderUnit == 12

\* new UISlider() has width 3, min 0, max 100, value 50 and step 0.
DefaultSliderConfig ==
  [width |-> 3 * Unit, min |-> 0, max |-> 100 * SliderUnit,
   value |-> 50 * SliderUnit, step |-> 0]

\* Configurations with min <= max: the defaults, the range 0..10 with no
\* step, step 3 and step 4, the range 2..10 with step 4 and the empty
\* range 10..10, each with value 5 or the default 50.
SliderConfigs ==
  {[DefaultSliderConfig EXCEPT !.min = r[1] * SliderUnit, !.max = r[2] * SliderUnit,
                               !.step = r[3] * SliderUnit, !.value = v * SliderUnit] :
     r \in {<<0, 100, 0>>, <<0, 10, 0>>, <<0, 10, 3>>, <<0, 10, 4>>,
            <<2, 10, 4>>, <<10, 10, 0>>},
     v \in {5, 50}}

\* Arguments of setValue: -5, 0, 1.5, 5, 10, 11 and 150.
SliderValues ==
  {0 - 5 * SliderUnit, 0, (3 * SliderUnit) \div 2, 5 * SliderUnit,
   10 * SliderUnit, 11 * SliderUnit, 150 * SliderUnit}

\* Arguments of setValueFromLocalX: -2, -1.5, -0.75, 0, 0.75, 1.5 and 2.
LocalXs ==
  {0 - 2 * Unit, 0 - (3 * Unit) \div 2, 0 - (3 * Unit) \div 4, 0,
   (3 * Unit) \div 4, (3 * Unit) \div 2, 2 * Unit}

\* Math.round(n / d) for d > 0: the nearest integer, a half rounded up.
round(n, d) == (2 * n + d) \div (2 * d)

\* getRatio() times length.
ratioOf(s, length) ==
  IF s.max - s.min = 0 THEN 0
  ELSE (length * (s.value - s.min)) \div (s.max - s.min)

\* fill.scale.x is fillWidth, or 0.001 when fillWidth is 0: the model keeps
\* fillWidth.
UISlider_updateVisuals(s) ==
  LET halfTrack == s.width \div 2
      fillWidth == ratioOf(s, s.width)
  IN [s EXCEPT !.fillWidth = fillWidth,
               !.fillX = (0 - halfTrack) + fillWidth \div 2,
               !.handleX = (0 - halfTrack) + ratioOf(s, s.width)]

UISlider(config) ==
  UISlider_updateVisuals(
    [width |-> config.width, min |-> config.min, max |-> config.max,
     step |-> config.step, value |-> config.value,
     fillWidth |-> 0, fillX |-> 0, handleX |-> 0,
     isDragging |-> FALSE, isHovered |-> FALSE])

\* Mutant of UISlider_clampAndStep: the range is applied only with a step.
UISlider_clampAndStepOnlyWithStep(s, value) ==
  IF s.step > 0
  THEN LET steps == round(Max(s.min, Min(s.max, value)) - s.min, s.step)
       IN Max(s.min, Min(s.max, s.min + steps * s.step))
  ELSE value

UISlider_clampAndStep(s, value) ==
  LET clamped == Max(s.min, Min(s.max, value))
  IN IF s.step > 0
     THEN LET steps == round(clamped - s.min, s.step)
          IN Max(s.min, Min(s.max, s.min + steps * s.step))
     ELSE clamped

UISlider_setValue(s, value) ==
  LET newValue == UISlider_clampAndStep(s, value)
  IN IF s.value # newValue
     THEN UISlider_updateVisuals([s EXCEPT !.value = newValue])
     ELSE s

UISlider_setValueFromLocalX(s, localX) ==
  LET halfWidth == s.width \div 2
      clamped == Max(0, Min(s.width, localX + halfWidth))
  IN UISlider_setValue(s, s.min + ((s.max - s.min) * clamped) \div s.width)

UISlider_startDrag(s) == [s EXCEPT !.isDragging = TRUE]
UISlider_endDrag(s) == [s EXCEPT !.isDragging = FALSE]

\* The handle takes the hover colour or the handle colour: the model keeps
\* the flag.
UISlider_setHovered(s, hovered) ==
  IF s.isHovered = hovered THEN s ELSE [s EXCEPT !.isHovered = hovered]

SliderStep(s, op, arg) ==
  /\ slider' = s
  /\ Ran(op, arg)
  /\ UNCHANGED <<button, checkbox, progressBar, scrollViews, stencilCounter,
                 toggle, floatingText, image, tooltip, box>>

SliderSetValue(x) == SliderStep(UISlider_setValue(slider, x), "setValue", x)
SliderSetValueFromLocalX(x) ==
  SliderStep(UISlider_setValueFromLocalX(slider, x), "setValueFromLocalX", x)
SliderStartDrag == SliderStep(UISlider_startDrag(slider), "startDrag", 0)
SliderEndDrag == SliderStep(UISlider_endDrag(slider), "endDrag", 0)
SliderSetHovered(h) == SliderStep(UISlider_setHovered(slider, h), "setHovered", h)

\* ------------------------------------------------------------------- UIBox
\* The color default of the UIBox constructor (0x333333).
DefaultBoxColor == 3355443

\* new UIBox() has no hover colour (null).
DefaultBoxConfig ==
  [color |-> DefaultBoxColor, hasHoverColor |-> FALSE, hoverColor |-> 0]

BoxConfigs ==
  {DefaultBoxConfig,
   [color |-> DefaultBoxColor, hasHoverColor |-> TRUE, hoverColor |-> DefaultHoverColor]}

\* Colours given to setColor and setHoverColor.
BoxColors == {DefaultBoxColor, DefaultColor, DefaultHoverColor}

\* new UIBox(config): materialColor is material.color.
UIBox(config) ==
  [color |-> config.color, hasHoverColor |-> config.hasHoverColor,
   hoverColor |-> config.hoverColor, isHovered |-> FALSE,
   materialColor |-> config.color]

UIBox_setColor(b, color) == [b EXCEPT !.color = color, !.materialColor = color]

\* setHoverColor(color), and setHoverColor(null) when hasColor is FALSE.
UIBox_setHoverColor(b, hasColor, color) ==
  [b EXCEPT !.hasHoverColor = hasColor, !.hoverColor = IF hasColor THEN color ELSE 0]

UIBox_setHovered(b, hovered) ==
  IF b.isHovered = hovered THEN b
  ELSE IF b.hasHoverColor
  THEN [b EXCEPT !.isHovered = hovered,
                 !.materialColor = IF hovered THEN b.hoverColor ELSE b.color]
  ELSE [b EXCEPT !.isHovered = hovered]

BoxStep(b, op, arg) ==
  /\ box' = b
  /\ Ran(op, arg)
  /\ UNCHANGED <<button, checkbox, progressBar, scrollViews, stencilCounter,
                 slider, toggle, floatingText, image, tooltip>>

BoxSetColor(c) == BoxStep(UIBox_setColor(box, c), "setColor", c)
BoxSetHoverColor(c) == BoxStep(UIBox_setHoverColor(box, TRUE, c), "setHoverColor", c)
BoxSetHoverColorNull == BoxStep(UIBox_setHoverColor(box, FALSE, 0), "setHoverColor", 0)
BoxSetHovered(h) == BoxStep(UIBox_setHovered(box, h), "setHovered", h)

\* ---------------------------------------------------------------- UIToggle
\* The handle's x is kept in fixed point, 1024 steps to 0.001; a product
\* that falls between two steps is rounded down to a step.
HandleSteps == 1024

\* The width and height defaults of the UIToggle constructor (0.6 and 0.3)
\* and the speed of update, in the steps above and per second.
ToggleWidth == 600 * HandleSteps
ToggleHeight == 300 * HandleSteps
ToggleSpeed == 10

\* The offColor and onColor defaults (0x7f8c8d, 0x2ecc71).
ToggleOffColor == 8359053
ToggleOnColor == 3066993

DefaultToggleConfig == [value |-> FALSE]
ToggleConfigs == {[value |-> v] : v \in BOOLEAN}

\* deltaTime given to update, in sixtieths of a second: 1/60 (the default),
\* 1/10 and 1/5.
DeltaTimes == {1, 6, 12}

handleTarget(value) ==
  LET handleTravel == ToggleWidth - ToggleHeight
  IN IF value THEN handleTravel \div 2 ELSE (0 - handleTravel) \div 2

\* new UIToggle(config), with an onChange callback: onChangeCalls is the
\* number of times it was invoked.
UIToggle(config) ==
  [value |-> config.value,
   trackColor |-> IF config.value THEN ToggleOnColor ELSE ToggleOffColor,
   targetHandleX |-> handleTarget(config.value),
   currentHandleX |-> handleTarget(config.value),
   handleX |-> handleTarget(config.value),
   onChangeCalls |-> 0]

UIToggle_setValue(g, value) ==
  IF g.value = value THEN g
  ELSE [g EXCEPT !.value = value,
                 !.trackColor = IF value THEN ToggleOnColor ELSE ToggleOffColor,
                 !.targetHandleX = handleTarget(value),
                 !.onChangeCalls = @ + 1]

UIToggle_toggle(g) == UIToggle_setValue(g, ~g.value)

Abs(x) == IF x < 0 THEN 0 - x ELSE x

\* Mutant of UIToggle_update: speed * deltaTime is not limited to 1.
UIToggle_updateUnlimited(g, dt60) ==
  LET diff == g.targetHandleX - g.currentHandleX
      x == g.currentHandleX + (diff * (ToggleSpeed * dt60)) \div 60
  IN IF Abs(diff) > HandleSteps
     THEN [g EXCEPT !.currentHandleX = x, !.handleX = x]
     ELSE g

\* update(deltaTime) for deltaTime = dt60 / 60: Math.min(1, speed *
\* deltaTime) is Min(60, speed * dt60) / 60.
UIToggle_update(g, dt60) ==
  LET diff == g.targetHandleX - g.currentHandleX
      x == g.currentHandleX + (diff * Min(60, ToggleSpeed * dt60)) \div 60
  IN IF Abs(diff) > HandleSteps
     THEN [g EXCEPT !.currentHandleX = x, !.handleX = x]
     ELSE g

ToggleStep(g, op, arg) ==
  /\ toggle' = g
  /\ Ran(op, arg)
  /\ UNCHANGED <<button, checkbox, progressBar, scrollViews, stencilCounter,
                 slider, floatingText, image, tooltip, box>>

ToggleToggle ==
  /\ toggle.onChangeCalls < MaxToggles
  /\ ToggleStep(UIToggle_toggle(toggle), "toggle", 0)
ToggleSetValue(v) ==
  /\ toggle.onChangeCalls < MaxToggles
  /\ ToggleStep(UIToggle_setValue(toggle, v), "setValue", IF v THEN 1 ELSE 0)
ToggleUpdate(dt60) == ToggleStep(UIToggle_update(toggle, dt60), "update", dt60)

\* ---------------------------------------------------------- UIFloatingText
\* Times are in tenths of a second, y in hundredths of a unit, opacity in
\* thousandths (rounded down to one).
DefaultFloatSpeed == 15
DefaultDuration == 10
FadeStartPercent == 30

DefaultFloatingTextConfig == [duration |-> DefaultDuration, hasOnComplete |-> FALSE]
FloatingTextConfigs ==
  {[duration |-> d, hasOnComplete |-> c] : d \in {5, DefaultDuration}, c \in BOOLEAN}

\* The argument of reset: duration and onComplete given or left undefined.
FloatingTextResets ==
  {[hasDuration |-> hd, duration |-> 5, hasOnComplete |-> c] :
     hd \in BOOLEAN, c \in BOOLEAN}

\* deltaTime given to UIFloatingText.update: 0.3 s and 0.5 s.
FloatingDeltaTimes == {3, 5}

\* new UIFloatingText(config); onCompleteCalls is the number of times an
\* onComplete callback was invoked, resets the number of reset calls.
UIFloatingText(config) ==
  [floatSpeed |-> DefaultFloatSpeed,
   duration |-> config.duration,
   elapsed |-> 0,
   isComplete |-> FALSE,
   hasOnComplete |-> config.hasOnComplete,
   initialY |-> 0,
   positionY |-> 0,
   opacity |-> Thousand,
   visible |-> TRUE,
   onCompleteCalls |-> 0,
   resets |-> 0]

fadedOpacity(f, elapsed) ==
  LET fadeStartTime100 == f.duration * FadeStartPercent
  IN IF 100 * elapsed > fadeStartTime100
     THEN Max(0, Thousand - (Thousand * (100 * elapsed - fadeStartTime100))
                               \div (100 * f.duration - fadeStartTime100))
     ELSE f.opacity

\* Mutant of UIFloatingText_update: no return for a complete text.
UIFloatingText_updateAlways(f, deltaTime) ==
  LET elapsed == f.elapsed + deltaTime
      done == elapsed >= f.duration
  IN [f EXCEPT !.elapsed = elapsed,
               !.positionY = f.initialY + elapsed * f.floatSpeed,
               !.opacity = fadedOpacity(f, elapsed),
               !.isComplete = IF done THEN TRUE ELSE @,
               !.visible = IF done THEN FALSE ELSE @,
               !.onCompleteCalls = IF done /\ f.hasOnComplete THEN @ + 1 ELSE @]

UIFloatingText_update(f, deltaTime) ==
  IF f.isComplete THEN f
  ELSE LET elapsed == f.elapsed + deltaTime
           done == elapsed >= f.duration
       IN [f EXCEPT !.elapsed = elapsed,
                    !.positionY = f.initialY + elapsed * f.floatSpeed,
                    !.opacity = fadedOpacity(f, elapsed),
                    !.isComplete = IF done THEN TRUE ELSE @,
                    !.visible = IF done THEN FALSE ELSE @,
                    !.onCompleteCalls =
                       IF done /\ f.hasOnComplete THEN @ + 1 ELSE @]

UIFloatingText_reset(f, config) ==
  [f EXCEPT !.elapsed = 0,
            !.isComplete = FALSE,
            !.visible = TRUE,
            !.opacity = Thousand,
            !.duration = IF config.hasDuration THEN config.duration ELSE @,
            !.hasOnComplete = IF config.hasOnComplete THEN TRUE ELSE @,
            !.resets = @ + 1]

FloatingTextStep(f, op, arg) ==
  /\ floatingText' = f
  /\ Ran(op, arg)
  /\ UNCHANGED <<button, checkbox, progressBar, scrollViews, stencilCounter,
                 slider, toggle, image, tooltip, box>>

FloatingTextUpdate(deltaTime) ==
  FloatingTextStep(UIFloatingText_update(floatingText, deltaTime),
                   "update", deltaTime)
FloatingTextReset(config) ==
  /\ floatingText.resets < MaxResets
  /\ FloatingTextStep(UIFloatingText_reset(floatingText, config), "reset", 0)

\* ----------------------------------------------------------------- UIImage
\* A texture is named by the URL it was loaded from and the number of the
\* load that produced it; a texture object handed to setTexture has no URL.
NoPath == "null"
NoTexture == [url |-> NoPath, no |-> 0]
TextureUrls == {"a.png", "b.png"}
TextureObjects == {[url |-> NoPath, no |-> 1]}

\* new UIImage() with the module's textureCache still empty. pending holds
\* the loads textureLoader has started and not completed; loads counts the
\* loads started. requested records the latest argument of setTexture, and
\* a pending load is marked superseded by a later setTexture call with
\* another URL or with a texture object.
UIImage ==
  [currentTexturePath |-> NoPath,
   map |-> NoTexture,
   textureCache |-> [u \in TextureUrls |-> NoTexture],
   pending |-> {},
   loads |-> 0,
   requested |-> NoTexture]

supersede(pending, url) ==
  {IF l.url = url THEN l ELSE [l EXCEPT !.superseded = TRUE] : l \in pending}

\* setTexture(texture) with a string
UIImage_setTextureUrl(i, url) ==
  LET j == [i EXCEPT !.currentTexturePath = url,
                     !.requested = [url |-> url, no |-> 0],
                     !.pending = supersede(@, url)]
  IN IF i.textureCache[url] # NoTexture
     THEN [j EXCEPT !.map = i.textureCache[url]]
     ELSE [j EXCEPT !.loads = @ + 1,
                    !.pending = @ \cup {[url |-> url, no |-> i.loads + 1,
                                         superseded |-> FALSE]}]

\* setTexture(texture) with a THREE.Texture
UIImage_setTextureObject(i, texture) ==
  [i EXCEPT !.currentTexturePath = NoPath,
            !.map = texture,
            !.requested = texture,
            !.pending = supersede(@, NoPath)]

\* Mutant of UIImage_onLoad: the loaded texture is shown whatever
\* currentTexturePath is.
UIImage_onLoadAlways(i, l) ==
  LET loadedTexture == [url |-> l.url, no |-> l.no]
  IN [i EXCEPT !.pending = @ \ {l},
               !.textureCache[l.url] = loadedTexture,
               !.map = loadedTexture]

\* The onLoad callback of the load l.
UIImage_onLoad(i, l) ==
  LET loadedTexture == [url |-> l.url, no |-> l.no]
  IN [i EXCEPT !.pending = @ \ {l},
               !.textureCache[l.url] = loadedTexture,
               !.map = IF i.currentTexturePath = l.url
                       THEN loadedTexture ELSE @]

ImageStep(i, op, arg) ==
  /\ image' = i
  /\ Ran(op, arg)
  /\ UNCHANGED <<button, checkbox, progressBar, scrollViews, stencilCounter,
                 slider, toggle, floatingText, tooltip, box>>

ImageSetTextureUrl(url) ==
  /\ image.textureCache[url] = NoTexture => image.loads < MaxLoads
  /\ ImageStep(UIImage_setTextureUrl(image, url), "setTexture", url)
ImageSetTextureObject(texture) ==
  ImageStep(UIImage_setTextureObject(image, texture), "setTexture", NoPath)
ImageLoaded(l) ==
  /\ l \in image.pending
  /\ ImageStep(UIImage_onLoad(image, l), "onLoad", l.url)

\* --------------------------------------------------------------- UITooltip
\* Lengths are in thousandths of a unit; the sizes below are even, so that
\* their halves are whole.
TooltipPadding == 100
TooltipMaxWidth == 2500
TooltipFontSize == 120
TooltipOffset == [x |-> 300, y |-> 300]
TooltipMargin == 100
DefaultViewBounds == [width |-> 20000, height |-> 15000]

DefaultTooltipConfig == [viewBounds |-> DefaultViewBounds]
ViewBounds == {DefaultViewBounds, [width |-> 3000, height |-> 1000]}
TooltipConfigs == {[viewBounds |-> b] : b \in ViewBounds}

\* The arguments of setContent, a line given by the length of its text,
\* and of setAnchorPosition.
TooltipContents == {<< >>, <<2>>, <<40, 40>>}
AnchorXs == {-9900, 0, 1200, 9300}
AnchorYs == {0, 300, 7300}

\* new UITooltip(config)
UITooltip(config) ==
  [lines |-> << >>,
   contentWidth |-> 0,
   contentHeight |-> 0,
   viewBounds |-> config.viewBounds,
   anchorX |-> 0,
   anchorY |-> 0,
   positionX |-> 0,
   positionY |-> 0,
   visible |-> FALSE]

\* The largest of the lines' estimated widths, each limited to
\* maxWidth - padding * 2: the loop of rebuildContent.
RECURSIVE maxTextWidthOf(_)
maxTextWidthOf(lines) ==
  IF lines = << >> THEN 0
  ELSE LET estimatedWidth == (lines[Len(lines)] * TooltipFontSize) \div 2
       IN Max(maxTextWidthOf(SubSeq(lines, 1, Len(lines) - 1)),
              Min(estimatedWidth, TooltipMaxWidth - TooltipPadding * 2))

UITooltip_rebuildContent(p) ==
  IF Len(p.lines) = 0 THEN [p EXCEPT !.visible = FALSE]
  ELSE LET lineHeight == (TooltipFontSize * 14) \div 10
       IN [p EXCEPT !.contentWidth =
                       Min(maxTextWidthOf(p.lines) + TooltipPadding * 2,
                           TooltipMaxWidth),
                    !.contentHeight =
                       Len(p.lines) * lineHeight + TooltipPadding * 2,
                    !.visible = TRUE]

UITooltip_setContent(p, lines) ==
  UITooltip_rebuildContent([p EXCEPT !.lines = lines])

UITooltip_setViewBounds(p, w, h) ==
  [p EXCEPT !.viewBounds = [width |-> w, height |-> h]]

\* updatePosition; viewBounds is never null once the constructor has run.
UITooltip_updatePosition(p) ==
  LET halfViewW == p.viewBounds.width \div 2
      halfViewH == p.viewBounds.height \div 2
      halfW == p.contentWidth \div 2
      halfH == p.contentHeight \div 2
      x1 == p.anchorX + TooltipOffset.x + halfW
      y1 == p.anchorY + TooltipOffset.y + halfH
      x2 == IF x1 + halfW > halfViewW
            THEN p.anchorX - TooltipOffset.x - halfW ELSE x1
      x3 == IF x2 - halfW < 0 - halfViewW
            THEN 0 - halfViewW + halfW + TooltipMargin ELSE x2
      y2 == IF y1 + halfH > halfViewH
            THEN p.anchorY - TooltipOffset.y - halfH ELSE y1
      y3 == IF y2 - halfH < 0 - halfViewH
            THEN 0 - halfViewH + halfH + TooltipMargin ELSE y2
  IN [p EXCEPT !.positionX = x3, !.positionY = y3]

UITooltip_setAnchorPosition(p, x, y) ==
  UITooltip_updatePosition([p EXCEPT !.anchorX = x, !.anchorY = y])

TooltipStep(p, op, arg) ==
  /\ tooltip' = p
  /\ Ran(op, arg)
  /\ UNCHANGED <<button, checkbox, progressBar, scrollViews, stencilCounter,
                 slider, toggle, floatingText, image, box>>

TooltipSetContent(lines) ==
  TooltipStep(UITooltip_setContent(tooltip, lines), "setContent", Len(lines))
TooltipSetViewBounds(b) ==
  TooltipStep(UITooltip_setViewBounds(tooltip, b.width, b.height),
              "setViewBounds", b.width)
TooltipSetAnchorPosition(x, y) ==
  TooltipStep(UITooltip_setAnchorPosition(tooltip, x, y),
              "setAnchorPosition", x)

\* ------------------------------------------------------------ construction
\* The widgets as their constructors leave them with no configuration, and
\* no scroll view constructed yet.
ButtonConstructed(config) == button = UIButton(config)
CheckboxConstructed(config) == checkbox = UICheckbox(config)
ProgressBarConstructed(config) == progressBar = UIProgressBar(config)
NoScrollView == scrollViews = <<>> /\ stencilCounter = 1

SliderConstructed(config) == slider = UISlider(config)
ToggleConstructed(config) == toggle = UIToggle(config)
FloatingTextConstructed(config) == floatingText = UIFloatingText(config)
ImageConstructed == image = UIImage
TooltipConstructed(config) == tooltip = UITooltip(config)
BoxConstructed(config) == box = UIBox(config)

MoreWidgetsConstructed ==
  /\ SliderConstructed(DefaultSliderConfig)
  /\ ToggleConstructed(DefaultToggleConfig)
  /\ FloatingTextConstructed(DefaultFloatingTextConfig)
  /\ ImageConstructed
  /\ TooltipConstructed(DefaultTooltipConfig)
  /\ BoxConstructed(DefaultBoxConfig)

WidgetsConstructed ==
  /\ ButtonConstructed(DefaultButtonConfig)
  /\ CheckboxConstructed(DefaultCheckboxConfig)
  /\ ProgressBarConstructed(DefaultProgressBarConfig)
  /\ NoScrollView
  /\ MoreWidgetsConstructed

\* A panel constructed with no configuration but its size, never touched.
PanelConstructed ==
  Constructed([direction |-> "vertical", align |-> "center", justify |-> "start",
               gap |-> 0, padding |-> <<0, 0, 0, 0>>, autoSize |-> FALSE,
               background |-> FALSE, width |-> 10 * Unit, height |-> 8 * Unit])

\* ------------------------------------------------------------------- panel
Init == WidgetsConstructed /\ \E config \in DefaultConfigs : Constructed(config)

InitLayout == WidgetsConstructed /\ \E config \in AllConfigs : Constructed(config)

\* Mutant of indexOf: the index of the last occurrence.
lastIndexOf(seq, e) ==
  IF \E i \in 1..Len(seq) : seq[i] = e
  THEN CHOOSE i \in 1..Len(seq) : seq[i] = e /\ \A j \in (i + 1)..Len(seq) : seq[j] # e
  ELSE 0

\* The index of the first occurrence of e in seq, 0 when there is none
\* (Array.indexOf, with 0 for -1 since sequences start at 1).
indexOf(seq, e) ==
  IF \E i \in 1..Len(seq) : seq[i] = e
  THEN CHOOSE i \in 1..Len(seq) : seq[i] = e /\ \A j \in 1..(i - 1) : seq[j] # e
  ELSE 0

\* Array.splice(index, 1).
splice(seq, index) ==
  [i \in 1..(Len(seq) - 1) |-> IF i < index THEN seq[i] ELSE seq[i + 1]]

\* super.add(e) (THREE.Object3D.add): e is detached from the parent it has
\* and becomes a child of the panel, once.
add(objects, e) == objects \cup {e}

\* super.remove(e) (THREE.Object3D.remove): e is no child of the panel any
\* more.
remove(objects, e) == objects \ {e}

AddChild(e) ==
  /\ Len(children) < MaxChildren
  /\ CommitArg(layout([Panel EXCEPT !.children = Append(children, e)]), "addChild", e)
  /\ attached' = add(attached, e)

RemoveChild(e) ==
  LET index == indexOf(children, e)
  IN IF index # 0
     THEN /\ CommitArg(layout([Panel EXCEPT !.children = splice(children, index)]),
                       "removeChild", e)
          /\ attached' = remove(attached, e)
     ELSE CommitArg(Panel, "removeChild", e) /\ UNCHANGED attached

\* UIPanel.getChildren(): a copy of the child list.
getChildren == children

RECURSIVE removeAll(_, _)
removeAll(objects, seq) ==
  IF seq = <<>> THEN objects ELSE removeAll(remove(objects, Head(seq)), Tail(seq))

ClearChildren ==
  /\ CommitArg(layout([Panel EXCEPT !.children = <<>>]), "clearChildren", 0)
  /\ attached' = removeAll(attached, children)

Layout ==
  Commit(layout(Panel), "layout")

SetDirection(d) ==
  Commit(layout([Panel EXCEPT !.direction = d]), "setDirection")

SetAlign(a) ==
  Commit(layout([Panel EXCEPT !.align = a]), "setAlign")

SetJustify(j) ==
  Commit(layout([Panel EXCEPT !.justify = j]), "setJustify")

\* Mutant of SetGap: the gap is stored and the layout is not run again.
SetGapWithoutLayout(g) ==
  Commit([Panel EXCEPT !.gap = g], "setGap")

SetGap(g) ==
  Commit(layout([Panel EXCEPT !.gap = g]), "setGap")

SetPadding(p) ==
  Commit(layout([Panel EXCEPT !.padding = p]), "setPadding")

\* Mutant of SetSize: the size is stored and the layout is not run again.
SetSizeWithoutLayout(w, h) ==
  Commit([Panel EXCEPT !.width = w, !.height = h,
                       !.bgWidth = IF background THEN w ELSE @,
                       !.bgHeight = IF background THEN h ELSE @], "setSize")

SetSize(w, h) ==
  Commit(layout([Panel EXCEPT !.width = w, !.height = h,
                             !.bgWidth = IF background THEN w ELSE @,
                             !.bgHeight = IF background THEN h ELSE @]), "setSize")

\* One more method call, while the exploration budget lasts.
Call == nOps < MaxOps /\ nOps' = nOps + 1 /\ UNCHANGED widgetVars

\* Any method of the panel, on a panel constructed with default layout
\* parameters.
Next ==
  \/ \E e \in Elems : Call /\ AddChild(e)
  \/ \E e \in Elems : Call /\ RemoveChild(e)
  \/ Call /\ ClearChildren
  \/ Call /\ Layout
  \/ \E d \in Directions : Call /\ SetDirection(d)
  \/ \E a \in Aligns : Call /\ SetAlign(a)
  \/ \E j \in Justifies : Call /\ SetJustify(j)
  \/ \E g \in Gaps : Call /\ SetGap(g)
  \/ \E p \in Paddings : Call /\ SetPadding(p)
  \/ \E sz \in Sizes : Call /\ SetSize(sz[1], sz[2])

Spec == Init /\ [][Next]_vars

\* The layout as a function of its inputs: a panel constructed with any
\* configuration, filled by addChild, and laid out again by layout().
NextLayout ==
  \/ \E e \in Elems : AddChild(e) /\ UNCHANGED <<nOps, widgetVars>>
  \/ Layout /\ UNCHANGED <<nOps, widgetVars>>

SpecLayout == InitLayout /\ [][NextLayout]_vars

\* ----------------------------------------------------- widget specifications
\* A button constructed with any of the configurations, then any method.
InitButton ==
  /\ PanelConstructed
  /\ \E config \in ButtonConfigs : ButtonConstructed(config)
  /\ CheckboxConstructed(DefaultCheckboxConfig)
  /\ ProgressBarConstructed(DefaultProgressBarConfig)
  /\ NoScrollView
  /\ MoreWidgetsConstructed

NextButton ==
  \/ \E h \in BOOLEAN : ButtonSetHovered(h)
  \/ \E p \in BOOLEAN : ButtonSetPressed(p)
  \/ \E d \in BOOLEAN : ButtonSetDisabled(d)
  \/ ButtonClick
  \/ \E c \in ButtonColors : ButtonSetColor(c)
  \/ \E c \in ButtonColors : ButtonSetHoverColor(c)
  \/ \E c \in ButtonColors : ButtonSetPressColor(c)

SpecButton == InitButton /\ [][NextButton]_vars

\* A checkbox constructed with any of the configurations, then any method.
InitCheckbox ==
  /\ PanelConstructed
  /\ ButtonConstructed(DefaultButtonConfig)
  /\ \E config \in CheckboxConfigs : CheckboxConstructed(config)
  /\ ProgressBarConstructed(DefaultProgressBarConfig)
  /\ NoScrollView
  /\ MoreWidgetsConstructed

NextCheckbox ==
  \/ CheckboxToggle
  \/ \E c \in BOOLEAN : CheckboxSetChecked(c)
  \/ \E h \in BOOLEAN : CheckboxSetHovered(h)
  \/ \E l \in CheckboxLabels : CheckboxSetLabel(l)

SpecCheckbox == InitCheckbox /\ [][NextCheckbox]_vars

\* A progress bar constructed with any of the configurations, then any
\* method.
InitProgressBar ==
  /\ PanelConstructed
  /\ ButtonConstructed(DefaultButtonConfig)
  /\ CheckboxConstructed(DefaultCheckboxConfig)
  /\ \E config \in ProgressBarConfigs : ProgressBarConstructed(config)
  /\ NoScrollView
  /\ MoreWidgetsConstructed

NextProgressBar ==
  \/ \E v \in ProgressValues : ProgressBarSetValue(v)
  \/ \E c \in FillColors : ProgressBarSetFillColor(c)
  \/ \E sz \in ProgressSizes : ProgressBarSetSize(sz[1], sz[2])

SpecProgressBar == InitProgressBar /\ [][NextProgressBar]_vars

\* One scroll view, constructed first in the program, then any of its
\* scrolling methods.
InitScrollView ==
  /\ PanelConstructed
  /\ ButtonConstructed(DefaultButtonConfig)
  /\ CheckboxConstructed(DefaultCheckboxConfig)
  /\ ProgressBarConstructed(DefaultProgressBarConfig)
  /\ MoreWidgetsConstructed
  /\ \E config \in ScrollConfigs :
       /\ scrollViews = <<UIScrollView(config, 1)>>
       /\ stencilCounter = stencilCounterAfter(config, 1)

NextScrollView ==
  \/ \E i \in 1..Len(scrollViews), delta \in ScrollDeltas : Scroll(i, delta)
  \/ \E i \in 1..Len(scrollViews), ratio \in ScrollRatios : SetScrollPosition(i, ratio)
  \/ \E i \in 1..Len(scrollViews), h \in ContentHeights : SetContentHeight(i, h)
  \/ \E i \in 1..Len(scrollViews), hovered \in BOOLEAN : SetThumbHovered(i, hovered)
  \/ \E i \in 1..Len(scrollViews), localY \in DragYs : StartDrag(i, localY)
  \/ \E i \in 1..Len(scrollViews), localY \in DragYs : UpdateDrag(i, localY)
  \/ \E i \in 1..Len(scrollViews) : EndDrag(i)

SpecScrollView == InitScrollView /\ [][NextScrollView]_vars

\* The widgets that are not under test, as their constructors leave them.
FirstWidgetsConstructed ==
  /\ ButtonConstructed(DefaultButtonConfig)
  /\ CheckboxConstructed(DefaultCheckboxConfig)
  /\ ProgressBarConstructed(DefaultProgressBarConfig)
  /\ NoScrollView

\* A slider constructed with any of the configurations, then any method.
InitSlider ==
  /\ PanelConstructed
  /\ FirstWidgetsConstructed
  /\ \E config \in SliderConfigs : SliderConstructed(config)
  /\ ToggleConstructed(DefaultToggleConfig)
  /\ FloatingTextConstructed(DefaultFloatingTextConfig)
  /\ ImageConstructed
  /\ TooltipConstructed(DefaultTooltipConfig)
  /\ BoxConstructed(DefaultBoxConfig)

NextSlider ==
  \/ \E x \in SliderValues : SliderSetValue(x)
  \/ \E x \in LocalXs : SliderSetValueFromLocalX(x)
  \/ SliderStartDrag
  \/ SliderEndDrag
  \/ \E h \in BOOLEAN : SliderSetHovered(h)

SpecSlider == InitSlider /\ [][NextSlider]_vars

\* A box constructed with or without a hover colour, then any of its
\* colour and hover methods.
InitBox ==
  /\ PanelConstructed
  /\ FirstWidgetsConstructed
  /\ SliderConstructed(DefaultSliderConfig)
  /\ ToggleConstructed(DefaultToggleConfig)
  /\ FloatingTextConstructed(DefaultFloatingTextConfig)
  /\ ImageConstructed
  /\ TooltipConstructed(DefaultTooltipConfig)
  /\ \E config \in BoxConfigs : BoxConstructed(config)

NextBox ==
  \/ \E c \in BoxColors : BoxSetColor(c)
  \/ \E c \in BoxColors : BoxSetHoverColor(c)
  \/ BoxSetHoverColorNull
  \/ \E h \in BOOLEAN : BoxSetHovered(h)

SpecBox == InitBox /\ [][NextBox]_vars

\* A toggle constructed on or off, then toggle, setValue and update; the
\* render loop calls update with every frame.
InitToggle ==
  /\ PanelConstructed
  /\ FirstWidgetsConstructed
  /\ SliderConstructed(DefaultSliderConfig)
  /\ \E config \in ToggleConfigs : ToggleConstructed(config)
  /\ FloatingTextConstructed(DefaultFloatingTextConfig)
  /\ ImageConstructed
  /\ TooltipConstructed(DefaultTooltipConfig)
  /\ BoxConstructed(DefaultBoxConfig)

EveryFrame == \E dt60 \in DeltaTimes : ToggleUpdate(dt60)

NextToggle ==
  \/ ToggleToggle
  \/ \E v \in BOOLEAN : ToggleSetValue(v)
  \/ EveryFrame

SpecToggle == InitToggle /\ [][NextToggle]_vars /\ WF_vars(EveryFrame)

\* A floating text constructed with or without an onComplete callback,
\* then update and reset.
InitFloatingText ==
  /\ PanelConstructed
  /\ FirstWidgetsConstructed
  /\ SliderConstructed(DefaultSliderConfig)
  /\ ToggleConstructed(DefaultToggleConfig)
  /\ \E config \in FloatingTextConfigs : FloatingTextConstructed(config)
  /\ ImageConstructed
  /\ TooltipConstructed(DefaultTooltipConfig)
  /\ BoxConstructed(DefaultBoxConfig)

NextFloatingText ==
  \/ \E deltaTime \in FloatingDeltaTimes : FloatingTextUpdate(deltaTime)
  \/ \E config \in FloatingTextResets : FloatingTextReset(config)

SpecFloatingText == InitFloatingText /\ [][NextFloatingText]_vars

\* One image; setTexture calls and the completions of the loads they
\* start, in any order.
InitImage ==
  /\ PanelConstructed
  /\ FirstWidgetsConstructed
  /\ MoreWidgetsConstructed

NextImage ==
  \/ \E url \in TextureUrls : ImageSetTextureUrl(url)
  \/ \E texture \in TextureObjects : ImageSetTextureObject(texture)
  \/ \E l \in image.pending : ImageLoaded(l)

SpecImage == InitImage /\ [][NextImage]_vars

\* A tooltip constructed with view bounds, then setContent, setViewBounds
\* and setAnchorPosition.
InitTooltip ==
  /\ PanelConstructed
  /\ FirstWidgetsConstructed
  /\ SliderConstructed(DefaultSliderConfig)
  /\ ToggleConstructed(DefaultToggleConfig)
  /\ FloatingTextConstructed(DefaultFloatingTextConfig)
  /\ ImageConstructed
  /\ \E config \in TooltipConfigs : TooltipConstructed(config)
  /\ BoxConstructed(DefaultBoxConfig)

NextTooltip ==
  \/ \E lines \in TooltipContents : TooltipSetContent(lines)
  \/ \E b \in ViewBounds : TooltipSetViewBounds(b)
  \/ \E x \in AnchorXs, y \in AnchorYs : TooltipSetAnchorPosition(x, y)

SpecTooltip == InitTooltip /\ [][NextTooltip]_vars

\* Scroll views constructed one after another, each with or without a
\* stencilRef.
InitStencil ==
  /\ PanelConstructed
  /\ WidgetsConstructed

NextStencil == \E config \in StencilConfigs : NewScrollView(config)

SpecStencil == InitStencil /\ [][NextStencil]_vars

\* ================================================================== claims
\* The quantities the claims speak of, read off the state.  They are
\* written from the claims' wording, apart from the layout operators, and
\* with lengths doubled where a half would appear.

Horizontal == direction = "horizontal"

\* A child's size along the main and the cross axis.
MainSizeOf(e) == IF Horizontal THEN ElemWidth(e) ELSE ElemHeight(e)
CrossSizeOf(e) == IF Horizontal THEN ElemHeight(e) ELSE ElemWidth(e)

\* A child's coordinate along the main and the cross axis.
MainCoord(e) == IF Horizontal THEN position[e].x ELSE position[e].y
CrossCoord(e) == IF Horizontal THEN position[e].y ELSE position[e].x

\* The content extent along the main axis: panel size minus padding.
ContentExtent ==
  IF Horizontal THEN width - padding[4] - padding[2] ELSE height - padding[1] - padding[3]

\* Twice mainStart: the left content edge (horizontal), the top content
\* edge (vertical).
MainStart2 == IF Horizontal THEN 2 * padding[4] - width ELSE height - 2 * padding[1]

RECURSIVE SumOfMainSizes(_)
SumOfMainSizes(n) == IF n = 0 THEN 0 ELSE SumOfMainSizes(n - 1) + MainSizeOf(children[n])

RECURSIVE SumOfWidths(_)
SumOfWidths(n) == IF n = 0 THEN 0 ELSE SumOfWidths(n - 1) + ElemWidth(children[n])

RECURSIVE SumOfHeights(_)
SumOfHeights(n) == IF n = 0 THEN 0 ELSE SumOfHeights(n - 1) + ElemHeight(children[n])

Count == Len(children)

LargestWidth == CHOOSE w \in {ElemWidth(children[i]) : i \in 1..Count} :
                  \A i \in 1..Count : ElemWidth(children[i]) <= w
LargestHeight == CHOOSE h \in {ElemHeight(children[i]) : i \in 1..Count} :
                   \A i \in 1..Count : ElemHeight(children[i]) <= h

\* Twice the distance, in the direction the main axis runs (rightwards
\* for horizontal, downwards for vertical), from the start of the content
\* box to the child's leading and to its trailing edge.
Lead2(e) ==
  IF Horizontal
  THEN (2 * position[e].x - ElemWidth(e)) - MainStart2
  ELSE MainStart2 - (2 * position[e].y + ElemHeight(e))
Trail2(e) == Lead2(e) + 2 * MainSizeOf(e)

\* No element occurs twice in the child list.
NoRepeats == \A i, j \in 1..Count : i # j => children[i] # children[j]

\* children[i] does not occur again later in the list.
LastOccurrence(i) == \A j \in (i + 1)..Count : children[j] # children[i]

\* --------------------------------------------------------------------- C1
\* C1: layout() is idempotent: a call of layout() on a panel with children,
\* whose last layout pass ran with the same children and parameters,
\* changes no child position and not the panel's width or height.
C1_LayoutIdempotent ==
  [][(lastOp' = "layout" /\ children # <<>>)
       => (position' = position /\ width' = width /\ height' = height)]_vars

\* --------------------------------------------------------------------- C2
\* C2: with autoSize, after one layout pass every child lies, along the
\* main axis, inside the content box of the resized panel.
C2_AutoSizedChildrenInsideContentBox ==
  (autoSize /\ children # <<>>)
    => \A i \in 1..Count :
         Lead2(children[i]) >= 0 /\ Trail2(children[i]) <= 2 * ContentExtent

\* --------------------------------------------------------------------- C3
\* C3: with autoSize and at least one child the panel's size is, for
\* horizontal, width = sum of child widths + gap*(count-1) + paddingLeft +
\* paddingRight and height = largest child height + paddingTop +
\* paddingBottom; for vertical, height = sum of child heights +
\* gap*(count-1) + paddingTop + paddingBottom and width = largest child
\* width + paddingLeft + paddingRight.
C3_AutoSize ==
  (autoSize /\ Count >= 1)
    => IF Horizontal
       THEN /\ width = SumOfWidths(Count) + gap * (Count - 1) + padding[4] + padding[2]
            /\ height = LargestHeight + padding[1] + padding[3]
       ELSE /\ height = SumOfHeights(Count) + gap * (Count - 1) + padding[1] + padding[3]
            /\ width = LargestWidth + padding[4] + padding[2]

\* Both directions auto-sized with several children, a gap and padding.
C3_Witness ==
  /\ autoSize /\ Count = 3 /\ gap > 0 /\ padding[1] > 0
  /\ children[1] # children[2]
  /\ <<width, height>> \notin Sizes

\* --------------------------------------------------------------------- C4
\* C4: a layout pass on a panel without children is a no-op: layout() on
\* an empty panel and clearChildren() leave the panel's width and height,
\* the background's size and every element's position as they were, also
\* with autoSize.
C4_EmptyLayoutNoOp ==
  [][((lastOp' = "layout" \/ lastOp' = "clearChildren") /\ children' = <<>>)
       => (width' = width /\ height' = height /\ bgWidth' = bgWidth
           /\ bgHeight' = bgHeight /\ position' = position)]_vars

\* clearChildren on an auto-sized panel: the size computed for the former
\* children (none of the sizes ever given to the panel) is still there.
C4_Witness ==
  /\ lastOp = "clearChildren" /\ children = <<>> /\ autoSize /\ background
  /\ <<width, height>> \notin Sizes
  /\ \E e \in Elems : position[e].z = ChildDepth

\* --------------------------------------------------------------------- C5
\* C5: a panel that has a background has that background's width and
\* height equal to the panel's width and height.
C5_BackgroundInSync ==
  background => (bgWidth = width /\ bgHeight = height)

\* An auto-sized panel with a background, resized by setSize and then by
\* its layout pass.
C5_Witness ==
  /\ background /\ autoSize /\ Count >= 1 /\ lastOp = "setSize"
  /\ <<width, height>> \notin Sizes

\* --------------------------------------------------------------------- C6
\* Twice the main position the first child is placed from, as the claim
\* gives it: mainStart for start, mainStart + (extent - total)/2 for
\* center, mainStart + extent - total for end.
C6_TotalMainSize == SumOfMainSizes(Count) + gap * (Count - 1)

C6_MainPos0x2 ==
  CASE justify = "start" -> MainStart2
    [] justify = "center" -> MainStart2 + (ContentExtent - C6_TotalMainSize)
    [] justify = "end" -> MainStart2 + 2 * (ContentExtent - C6_TotalMainSize)

\* The sum over the children before the i-th of (mainSize + gap).
RECURSIVE C6_Before(_)
C6_Before(i) ==
  IF i <= 1 THEN 0 ELSE C6_Before(i - 1) + MainSizeOf(children[i - 1]) + gap

\* The i-th child's main-axis centre is where the claim puts it.
C6_Placed(i) ==
  2 * MainCoord(children[i]) =
    IF Horizontal
    THEN C6_MainPos0x2 + 2 * C6_Before(i) + MainSizeOf(children[i])
    ELSE C6_MainPos0x2 - 2 * C6_Before(i) - MainSizeOf(children[i])

\* C6 as stated: with autoSize false and justify start, center or end,
\* every child's main-axis centre is mainPos0 plus (horizontal) or minus
\* (vertical) the sizes and gaps of the children before it and half its
\* own size, unclamped.
C6_EveryChildPlaced ==
  (~autoSize /\ justify \in {"start", "center", "end"})
    => \A i \in 1..Count : C6_Placed(i)

\* C6 as amended: the same for every child that does not occur again
\* later in the child list (an element added twice is one object with one
\* position, that of its last slot).
C6_LastOccurrencePlaced ==
  (~autoSize /\ justify \in {"start", "center", "end"})
    => \A i \in 1..Count : LastOccurrence(i) => C6_Placed(i)

\* Three distinct children that overflow the content extent of a vertical
\* panel, centred, with a gap and padding.
C6_Witness ==
  /\ ~autoSize /\ justify = "center" /\ ~Horizontal /\ Count = 3 /\ NoRepeats
  /\ gap > 0 /\ padding[1] > 0
  /\ C6_TotalMainSize > ContentExtent

\* --------------------------------------------------------------------- C7
\* The first child starts at mainStart; with two or more children the
\* space between consecutive children is (extent - sum of sizes)/(count-1)
\* and the last child ends at the opposite content edge.
C7_Distributed ==
  /\ Lead2(children[1]) = 0
  /\ Count >= 2 =>
       /\ \A i \in 1..(Count - 1) :
            (Count - 1) * (Lead2(children[i + 1]) - Trail2(children[i]))
              = 2 * (ContentExtent - SumOfMainSizes(Count))
       /\ Trail2(children[Count]) = 2 * ContentExtent

\* C7 as stated: with justify space-between and autoSize false the
\* children are distributed so, whatever the configured gap.
C7_SpaceBetween ==
  (~autoSize /\ justify = "space-between" /\ Count >= 1) => C7_Distributed

\* C7 as amended: the same when no element occurs twice in the child list.
C7_SpaceBetweenNoRepeats ==
  (~autoSize /\ justify = "space-between" /\ Count >= 1 /\ NoRepeats)
    => C7_Distributed

\* Three distinct children, a configured gap that differs from the
\* spacing used, and padding.
C7_Witness ==
  /\ ~autoSize /\ justify = "space-between" /\ Count = 3 /\ NoRepeats
  /\ gap > 0 /\ padding[1] > 0
  /\ 2 * gap # ContentExtent - SumOfMainSizes(Count)

\* --------------------------------------------------------------------- C8
\* C8: with justify space-around and autoSize false, the free space before
\* the first child, between consecutive children and after the last child
\* all equal (extent - sum of sizes)/(count+1).
C8_SpaceAround ==
  (~autoSize /\ justify = "space-around" /\ Count >= 1)
    => /\ (Count + 1) * Lead2(children[1])
            = 2 * (ContentExtent - SumOfMainSizes(Count))
       /\ \A i \in 1..(Count - 1) :
            (Count + 1) * (Lead2(children[i + 1]) - Trail2(children[i]))
              = 2 * (ContentExtent - SumOfMainSizes(Count))
       /\ (Count + 1) * (2 * ContentExtent - Trail2(children[Count]))
            = 2 * (ContentExtent - SumOfMainSizes(Count))

\* --------------------------------------------------------------------- C9
\* C9: with align center every child's cross-axis coordinate is 0.
C9_CenterIsZero ==
  align = "center" => \A i \in 1..Count : CrossCoord(children[i]) = 0

\* Two children of different cross sizes in a padded panel.
C9_Witness ==
  /\ align = "center" /\ Count >= 2 /\ padding[3] > 0
  /\ CrossSizeOf(children[1]) # CrossSizeOf(children[2])
  /\ position[children[1]].z = ChildDepth

\* -------------------------------------------------------------------- C10
\* C10: with align start every child's near cross edge is the matching
\* padding inside the panel edge (bottom + paddingBottom for horizontal,
\* left + paddingLeft for vertical); with align end its far cross edge is
\* the matching padding inside the opposite edge (top - paddingTop, right
\* - paddingRight); the panel size is the one after any autoSize update.
C10_CrossEdges ==
  \A i \in 1..Count :
    LET e == children[i]
    IN /\ align = "start" =>
            2 * CrossCoord(e) - CrossSizeOf(e) =
              IF Horizontal THEN 2 * padding[3] - height ELSE 2 * padding[4] - width
       /\ align = "end" =>
            2 * CrossCoord(e) + CrossSizeOf(e) =
              IF Horizontal THEN height - 2 * padding[1] ELSE width - 2 * padding[2]

\* An auto-sized, asymmetrically padded panel with end alignment.
C10_Witness ==
  /\ align = "end" /\ autoSize /\ Count >= 2 /\ padding[1] # padding[3]
  /\ <<width, height>> \notin Sizes
  /\ CrossSizeOf(children[1]) # CrossSizeOf(children[2])

\* -------------------------------------------------------------------- C11
\* C11: with autoSize false and justify start, a setPadding that raises
\* paddingLeft by d and paddingTop by d' moves every child's main
\* coordinate by +d in a horizontal panel (whatever d') and by -d' in a
\* vertical panel (whatever d).
C11_PaddingByAxis ==
  [][(lastOp' = "setPadding" /\ ~autoSize /\ justify = "start")
       => \A i \in 1..Count :
            (MainCoord(children[i]))' - MainCoord(children[i]) =
              IF Horizontal THEN padding'[4] - padding[4]
                            ELSE padding[1] - padding'[1]]_vars

\* A vertical panel with two children after a setPadding that made
\* paddingLeft and paddingTop differ.
C11_Witness ==
  /\ lastOp = "setPadding" /\ ~autoSize /\ justify = "start" /\ ~Horizontal
  /\ Count >= 2 /\ padding[1] > 0 /\ padding[4] # padding[1]

\* -------------------------------------------------------------------- C12
\* C12: every child's depth is the fixed offset 0.01, in front of the
\* background mesh (0) and of the border mesh (0.001), whatever depth the
\* element had before it was laid out.
C12_ChildrenInFront ==
  \A i \in 1..Count :
    /\ position[children[i]].z = ChildDepth
    /\ position[children[i]].z > BackgroundDepth
    /\ position[children[i]].z > BorderDepth

\* A panel with a background, a laid-out child and an element that was
\* never laid out and kept its own depth.
C12_Witness ==
  /\ background /\ Count >= 1
  /\ \E e \in Elems : position[e].z # ChildDepth

\* -------------------------------------------------------------------- C13
\* seq without the first occurrence of e, the other entries in order.
RECURSIVE C13_WithoutFirst(_, _)
C13_WithoutFirst(seq, e) ==
  IF seq = <<>> THEN <<>>
  ELSE IF Head(seq) = e THEN Tail(seq)
  ELSE <<Head(seq)>> \o C13_WithoutFirst(Tail(seq), e)

\* The children lie along the main axis in list order (read off where
\* each entry is one object: no repeats, fixed size, justify start).
C13_InListOrder ==
  (NoRepeats /\ ~autoSize /\ justify = "start")
    => \A i, j \in 1..Count : i < j => Lead2(children[i]) < Lead2(children[j])

\* C13: addChild appends its argument, also when it is in the list
\* already; removeChild deletes the first occurrence of its argument and
\* keeps the order of the rest; clearChildren empties the list and no
\* other method changes it; getChildren returns the list and layout places
\* the children in list order.
C13_ChildSequence ==
  [][/\ lastOp' = "addChild" => getChildren' = Append(children, lastArg')
     /\ lastOp' = "removeChild" => getChildren' = C13_WithoutFirst(children, lastArg')
     /\ lastOp' = "clearChildren" => getChildren' = <<>>
     /\ lastOp' \notin {"addChild", "removeChild", "clearChildren"}
          => getChildren' = children
     /\ C13_InListOrder']_vars

\* removeChild of an element that was in the list twice, with another
\* element between: the later occurrence is still there, after the other.
C13_Witness ==
  /\ lastOp = "removeChild" /\ Count = 2
  /\ children[2] = lastArg /\ children[1] # lastArg

\* -------------------------------------------------------------------- C14
\* The layout algorithm of the specification (section 4.1, steps 1 to 7)
\* for a panel of fixed size, on the current child list, parameters and
\* size.
C14_ContentWidth == width - padding[4] - padding[2]
C14_ContentHeight == height - padding[1] - padding[3]
C14_ChildMain(i) == IF Horizontal THEN ElemWidth(children[i]) ELSE ElemHeight(children[i])
C14_ChildCross(i) == IF Horizontal THEN ElemHeight(children[i]) ELSE ElemWidth(children[i])

RECURSIVE C14_SumMain(_)
C14_SumMain(n) == IF n = 0 THEN 0 ELSE C14_SumMain(n - 1) + C14_ChildMain(n)

C14_TotalMainSize == C14_SumMain(Count) + gap * (Count - 1)
C14_MainSize == IF Horizontal THEN C14_ContentWidth ELSE C14_ContentHeight
C14_MainStart ==
  IF Horizontal THEN padding[4] - width \div 2 ELSE height \div 2 - padding[1]

C14_Spacing ==
  IF justify = "space-between" /\ Count > 1
  THEN (C14_MainSize - C14_SumMain(Count)) \div (Count - 1)
  ELSE IF justify = "space-around"
  THEN (C14_MainSize - C14_SumMain(Count)) \div (Count + 1)
  ELSE gap

C14_FirstMainPos ==
  IF justify = "center" THEN C14_MainStart + (C14_MainSize - C14_TotalMainSize) \div 2
  ELSE IF justify = "end" THEN C14_MainStart + C14_MainSize - C14_TotalMainSize
  ELSE IF justify = "space-around" THEN C14_MainStart + C14_Spacing
  ELSE C14_MainStart

\* mainPos when the i-th child is placed.
RECURSIVE C14_MainPos(_)
C14_MainPos(i) ==
  IF i = 1 THEN C14_FirstMainPos
  ELSE IF Horizontal
  THEN C14_MainPos(i - 1) + (C14_ChildMain(i - 1) + C14_Spacing)
  ELSE C14_MainPos(i - 1) - (C14_ChildMain(i - 1) + C14_Spacing)

C14_CrossPos(i) ==
  IF align = "center" THEN 0
  ELSE IF align = "start"
  THEN (IF Horizontal THEN padding[3] - height \div 2 ELSE padding[4] - width \div 2)
       + C14_ChildCross(i) \div 2
  ELSE (IF Horizontal THEN height \div 2 - padding[1] ELSE width \div 2 - padding[2])
       - C14_ChildCross(i) \div 2

\* The position step 7 assigns to the i-th child.
C14_Assigned(i) ==
  IF Horizontal
  THEN [x |-> C14_MainPos(i) + C14_ChildMain(i) \div 2, y |-> C14_CrossPos(i),
        z |-> ChildDepth]
  ELSE [x |-> C14_CrossPos(i), y |-> C14_MainPos(i) - C14_ChildMain(i) \div 2,
        z |-> ChildDepth]

\* Every child is where the algorithm, run on the current list, parameters
\* and size, leaves it (an element listed twice: where its last entry is
\* assigned).
C14_LaidOut ==
  ~autoSize => \A i \in 1..Count : LastOccurrence(i) => position[children[i]] = C14_Assigned(i)

\* C14: with autoSize false, after every method the children are laid out
\* for the current child list, parameters and size; removeChild of an
\* element that is not a child changes nothing.
C14_LayoutFollowsEveryMutation ==
  [][/\ C14_LaidOut'
     /\ (lastOp' = "removeChild" /\ \A i \in 1..Count : children[i] # lastArg')
          => UNCHANGED <<children, direction, align, justify, gap, padding,
                         autoSize, width, height, background, bgWidth,
                         bgHeight, position>>]_vars

\* A fixed-size panel whose gap was just set, with centred children.
C14_Witness ==
  /\ lastOp = "setGap" /\ gap > 0 /\ ~autoSize /\ Count >= 2
  /\ justify # "start"

\* removeChild of an element that is not in a non-empty list.
C14_WitnessNotAChild ==
  /\ lastOp = "removeChild" /\ Count >= 1 /\ ~autoSize
  /\ \A i \in 1..Count : children[i] # lastArg

\* -------------------------------------------------------------------- C15
\* C15: a disabled button is neither hovered nor pressed; setHovered and
\* setPressed on a disabled button change nothing; click() on a disabled
\* button does not invoke onClick; setDisabled(true) clears hovered and
\* pressed.
C15_DisabledIgnoresInteraction ==
  [][/\ button'.isDisabled => ~button'.isHovered /\ ~button'.isPressed
     /\ (button.isDisabled /\ lastOp' \in {"setHovered", "setPressed"})
          => button' = button
     /\ (button.isDisabled /\ lastOp' = "click")
          => button'.onClickCalls = button.onClickCalls
     /\ (lastOp' = "setDisabled" /\ lastArg' = TRUE)
          => button'.isDisabled /\ ~button'.isHovered /\ ~button'.isPressed]_vars

\* click() on a disabled button whose callback ran before it was disabled.
C15_Witness ==
  /\ lastOp = "click" /\ button.isDisabled
  /\ button.hasOnClick /\ button.onClickCalls >= 1

\* -------------------------------------------------------------------- C16
\* C16: getValue() of a progress bar lies in [0, 1] in every state, from
\* construction with any config value on.
C16_ValueInRange ==
  /\ UIProgressBar_getValue(progressBar) >= 0
  /\ UIProgressBar_getValue(progressBar) <= Thousand

\* -------------------------------------------------------------------- C17
\* C17: scroll(0.5) on a freshly constructed scroll view whose content is
\* taller than its viewport leaves scrollRatio at 1/2.
C17_ScrollHalfIsHalfway ==
  [][\A i \in 1..Len(scrollViews) :
       (/\ lastOp = "new"
        /\ scrollViews[i].contentHeight > scrollViews[i].viewportHeight
        /\ lastOp' = "scroll" /\ lastArg' = Unit \div 2
        /\ scrollViews'[i] # scrollViews[i])
         => scrollRatio(scrollViews'[i]) = <<1, 2>>]_vars

\* -------------------------------------------------------------------- C18
\* C18: a scroll view constructed without a stencilRef has a stencil
\* reference that no other scroll view has, in whatever order views are
\* constructed with and without a stencilRef.
C18_CounterRefsDistinct ==
  \A i, j \in 1..Len(scrollViews) :
    (i # j /\ ~scrollViews[i].explicitRef)
      => scrollViews[i].stencilRef # scrollViews[j].stencilRef

C20_OnChangePerChange ==
  [][/\ checkbox.hasOnChange
          => checkbox'.onChangeCalls =
               IF checkbox'.checked # checkbox.checked
               THEN Append(checkbox.onChangeCalls, checkbox'.checked)
               ELSE checkbox.onChangeCalls
     /\ (lastOp' = "setChecked" /\ lastArg' = checkbox.checked)
          => checkbox' = checkbox
     /\ lastOp' = "toggle"
          => /\ checkbox'.checked = ~checkbox.checked
             /\ checkbox.hasOnChange
                  => Len(checkbox'.onChangeCalls) = Len(checkbox.onChangeCalls) + 1
     /\ checkbox.checkMarkVisible = checkbox.checked
     /\ checkbox'.checkMarkVisible = checkbox'.checked]_vars

\* A checkbox that was given its current state after onChange had run
\* twice, the second time for a toggle back to unchecked.
C20_Witness ==
  /\ lastOp = "setChecked" /\ lastArg = checkbox.checked
  /\ checkbox.hasOnChange /\ checkbox.onChangeCalls = <<TRUE, FALSE>>

\* -------------------------------------------------------------------- C27
\* C27: every element in the panel's child list is attached to the panel
\* in the scene graph, and every element that is not in the list is
\* detached.
C27_ListMatchesSceneGraph ==
  \A e \in Elems : (\E i \in 1..Count : children[i] = e) <=> e \in attached

\* -------------------------------------------------------------------- C29
\* The size step 4 of the layout computes from the current children, gap
\* and padding.
C29_AutoWidth ==
  IF Horizontal
  THEN SumOfWidths(Count) + gap * (Count - 1) + padding[4] + padding[2]
  ELSE LargestWidth + padding[4] + padding[2]

C29_AutoHeight ==
  IF Horizontal
  THEN LargestHeight + padding[1] + padding[3]
  ELSE SumOfHeights(Count) + gap * (Count - 1) + padding[1] + padding[3]

\* C29: with autoSize and at least one child, after every method the
\* panel's width and height are the auto-computed size; setSize(w, h)
\* leaves the size as it was.
C29_AutoSizeAfterEveryMethod ==
  [][(autoSize' /\ Len(children') >= 1)
       => /\ width' = C29_AutoWidth' /\ height' = C29_AutoHeight'
          /\ (lastOp' = "setSize" /\ Count >= 1)
               => width' = width /\ height' = height]_vars

\* setSize was called on an auto-sized panel with children, and the size
\* is none of those setSize is given.
C29_Witness ==
  /\ lastOp = "setSize" /\ autoSize /\ Count >= 2
  /\ <<width, height>> \notin Sizes

\* -------------------------------------------------------------------- C23
\* C23: after scroll, setScrollPosition, setContentHeight, startDrag,
\* updateDrag and endDrag, 0 <= scrollOffset <= max(0, contentHeight -
\* viewportHeight) and scrollRatio is in [0, 1]; updateDrag changes nothing
\* unless a startDrag came before it with no endDrag between.
C23_OffsetInRange ==
  [][\A i \in 1..Len(scrollViews') :
       LET v == scrollViews[i]
           w == scrollViews'[i]
           extent == IF w.contentHeight > w.viewportHeight
                     THEN w.contentHeight - w.viewportHeight ELSE 0
       IN /\ 0 <= w.scrollOffset /\ w.scrollOffset <= extent
          /\ 0 <= scrollRatio(w)[1] /\ scrollRatio(w)[1] <= scrollRatio(w)[2]
          /\ w.isDragging = IF lastOp' = "startDrag" THEN TRUE
                            ELSE IF lastOp' = "endDrag" THEN FALSE
                            ELSE v.isDragging
          /\ (lastOp' = "updateDrag" /\ ~v.isDragging) => w = v]_vars

\* A drag of the thumb by 0.56 that carried the view from the top to an
\* offset of 2.
C23_Witness ==
  /\ lastOp = "updateDrag" /\ Len(scrollViews) = 1
  /\ scrollViews[1].isDragging
  /\ scrollViews[1].dragStartScrollOffset = 0
  /\ scrollViews[1].scrollOffset = 2 * Unit

\* -------------------------------------------------------------------- C22
\* The grid point min + k*step nearest to max (a tie goes to the upper).
C22_GridPointNearMax ==
  slider.min + ((2 * (slider.max - slider.min) + slider.step) \div (2 * slider.step))
                 * slider.step

\* C22 as stated: after setValue(x) or setValueFromLocalX(x) the value is
\* in [min, max]; setValueFromLocalX maps x <= -width/2 to min and
\* x >= width/2 to max.
C22_ClampedAndEndsMapToEnds ==
  [][(lastOp' \in {"setValue", "setValueFromLocalX"})
       => /\ slider.min <= slider'.value /\ slider'.value <= slider.max
          /\ (lastOp' = "setValueFromLocalX" /\ 2 * lastArg' <= 0 - slider.width)
               => slider'.value = slider.min
          /\ (lastOp' = "setValueFromLocalX" /\ 2 * lastArg' >= slider.width)
               => slider'.value = slider.max]_vars

\* C22, amended: after setValue(x) or setValueFromLocalX(x) the value is in
\* [min, max]; setValueFromLocalX maps x <= -width/2 to min, and x >=
\* width/2 to max, or, with a step whose grid point nearest to max lies
\* below max, to that grid point.
C22_ClampedAndEndsMapToGrid ==
  [][(lastOp' \in {"setValue", "setValueFromLocalX"})
       => /\ slider.min <= slider'.value /\ slider'.value <= slider.max
          /\ (lastOp' = "setValueFromLocalX" /\ 2 * lastArg' <= 0 - slider.width)
               => slider'.value = slider.min
          /\ (lastOp' = "setValueFromLocalX" /\ 2 * lastArg' >= slider.width)
               => slider'.value =
                    IF slider.step > 0 /\ C22_GridPointNearMax < slider.max
                    THEN C22_GridPointNearMax
                    ELSE slider.max]_vars

\* The pointer was right of the track of a slider from 0 to 10 with step 3.
C22_Witness ==
  /\ lastOp = "setValueFromLocalX" /\ 2 * lastArg > slider.width
  /\ slider.step = 3 * SliderUnit /\ slider.value = 9 * SliderUnit

\* -------------------------------------------------------------------- C28
\* C28: with step > 0, after setValue(x) the value is min + k*step for an
\* integer k >= 0.
C28_OnStepGrid ==
  [][(lastOp' = "setValue" /\ slider.step > 0)
       => /\ slider'.value >= slider.min
          /\ (slider'.value - slider.min) % slider.step = 0]_vars

\* -------------------------------------------------------------------- C30
\* C30: the material colour of a box is its hover colour when the box is
\* hovered and has a hover colour, and its base colour otherwise.
C30_MaterialFollowsHover ==
  box.materialColor =
    IF box.isHovered /\ box.hasHoverColor THEN box.hoverColor ELSE box.color

\* -------------------------------------------------------------------- C21
\* The distance the handle has to go, signed, and whether it is within
\* 0.001 of the target.
C21_ToGo == toggle.targetHandleX - toggle.currentHandleX
C21_Arrived == Abs(C21_ToGo) <= HandleSteps

\* C21: the target is +(width-height)/2 for on and -(width-height)/2 for
\* off; update(deltaTime) with deltaTime > 0 moves the handle toward the
\* target and never past it; a handle within 0.001 of the target is not
\* moved; and a handle that is further away gets within 0.001 of the
\* target.
C21_HandleConverges ==
  /\ [][/\ 2 * toggle'.targetHandleX =
             IF toggle'.value THEN ToggleWidth - ToggleHeight
                              ELSE ToggleHeight - ToggleWidth
        /\ lastOp' = "update"
             => /\ C21_ToGo >= 0 => (0 <= C21_ToGo' /\ C21_ToGo' <= C21_ToGo)
                /\ C21_ToGo <= 0 => (C21_ToGo <= C21_ToGo' /\ C21_ToGo' <= 0)
                /\ ~C21_Arrived => C21_ToGo' # C21_ToGo
                /\ C21_Arrived => toggle' = toggle]_vars
  /\ (~C21_Arrived ~> C21_Arrived)

\* The handle has come within 0.001 of the target by update calls and
\* stopped short of it.
C21_Witness ==
  /\ lastOp = "update" /\ toggle.onChangeCalls >= 1
  /\ C21_Arrived /\ C21_ToGo # 0

\* -------------------------------------------------------------------- C24
\* C24: with an onComplete callback, the update call that brings the
\* elapsed time of an incomplete text to its duration makes the text
\* complete and invisible and invokes the callback once; an update that
\* does not reach the duration invokes nothing; an update of a complete
\* text changes nothing; and reset starts a new run (elapsed 0, incomplete,
\* visible) without invoking the callback.
C24_OnCompleteOncePerRun ==
  [][/\ (lastOp' = "update" /\ floatingText.hasOnComplete) =>
          IF floatingText.isComplete
          THEN floatingText' = floatingText
          ELSE IF floatingText.elapsed + lastArg' >= floatingText.duration
          THEN /\ floatingText'.isComplete
               /\ ~floatingText'.visible
               /\ floatingText'.onCompleteCalls =
                    floatingText.onCompleteCalls + 1
          ELSE /\ ~floatingText'.isComplete
               /\ floatingText'.onCompleteCalls = floatingText.onCompleteCalls
     /\ lastOp' = "reset" =>
          /\ floatingText'.elapsed = 0
          /\ ~floatingText'.isComplete
          /\ floatingText'.visible
          /\ floatingText'.onCompleteCalls = floatingText.onCompleteCalls]_vars

\* An update call has just completed the second run: the callback has been
\* invoked twice.
C24_Witness ==
  /\ lastOp = "update"
  /\ floatingText.resets = 1
  /\ floatingText.isComplete
  /\ floatingText.onCompleteCalls = 2
  /\ floatingText.elapsed < floatingText.duration + lastArg

\* -------------------------------------------------------------------- C25
\* With no load pending the image shows the texture of the latest
\* setTexture request: a texture loaded from the requested URL, or the
\* texture object handed over.
C25_ShowsLatestRequest ==
  image.pending = {} =>
    IF image.requested.url # NoPath
    THEN image.map.url = image.requested.url
    ELSE image.map = image.requested

\* C25 as stated: with no load pending the image shows the texture of the
\* latest request, and a load that completes after its request was
\* superseded by another URL or by a texture object never replaces the
\* texture shown.
C25_SupersededLoadNeverShown ==
  /\ []C25_ShowsLatestRequest
  /\ [][\A l \in image.pending :
          (l \notin image'.pending /\ l.superseded) => image'.map = image.map]_vars

\* C25, amended: with no load pending the image shows the texture of the
\* latest request, and a load that completes while the latest request is
\* for another URL or for a texture object never replaces the texture
\* shown.
C25_StaleLoadNeverShown ==
  /\ []C25_ShowsLatestRequest
  /\ [][\A l \in image.pending :
          (l \notin image'.pending /\ image.requested.url # l.url)
             => image'.map = image.map]_vars

\* The last pending load has completed for a URL other than the one
\* requested last, and the image shows a texture of the requested URL.
C25_Witness ==
  /\ lastOp = "onLoad"
  /\ image.pending = {}
  /\ image.requested.url # NoPath
  /\ lastArg # image.requested.url
  /\ image.map.url = image.requested.url

\* -------------------------------------------------------------------- C26
\* The anchor lies inside the view bounds and the tooltip is at least 0.1
\* smaller than the view in each dimension (the offset is 0.3 both ways).
C26_Fits ==
  /\ 2 * Abs(tooltip.anchorX) <= tooltip.viewBounds.width
  /\ 2 * Abs(tooltip.anchorY) <= tooltip.viewBounds.height
  /\ tooltip.contentWidth + TooltipMargin <= tooltip.viewBounds.width
  /\ tooltip.contentHeight + TooltipMargin <= tooltip.viewBounds.height

\* C26: a visible tooltip whose anchor lies inside the view bounds and
\* which is at least 0.1 smaller than the view has its rectangle, position
\* +/- half its content size, inside the view bounds.
C26_InsideViewBounds ==
  (tooltip.visible /\ C26_Fits) =>
    /\ 2 * tooltip.positionX + tooltip.contentWidth <= tooltip.viewBounds.width
    /\ 2 * tooltip.positionX - tooltip.contentWidth >= 0 - tooltip.viewBounds.width
    /\ 2 * tooltip.positionY + tooltip.contentHeight <= tooltip.viewBounds.height
    /\ 2 * tooltip.positionY - tooltip.contentHeight >= 0 - tooltip.viewBounds.height

====
